---- MODULE Spec2Model ----
(***************************************************************************)
(* sync2smugmug: the event dispatcher (event_manager.py), the sync-state   *)
(* cache (disk.py), the reconciliation walk (sync.py) and the handlers     *)
(* (handlers.py, online/online.py).                                        *)
(*                                                                         *)
(* Specifications:                                                         *)
(*   SpecEM     the dispatcher alone, driven by an arbitrary publisher and *)
(*              by handlers that may publish, suspend, return or raise;    *)
(*   SpecSynced albums_already_synced applied to bounded inputs;           *)
(*   Spec       one run of synchronize() over a pair of scanned trees.     *)
(***************************************************************************)
EXTENDS Integers, Sequences, FiniteSets, TLC

\* ------------------------------------------------------------------ bounds
\* number of events fired in one behaviour of SpecEM
MaxEvents == 7
\* number of events the publisher of SpecLoad fires in one burst
MaxLoad == 11
\* SpecSynced: how far beyond DELTA (and short of it) the clock differences go
MaxSkew == 1
\* Spec: the images an album can hold are the first MaxImages file names
MaxImages == 2
\* Spec: how many times the process is run, one run after the other
MaxRuns == 2
\* SpecSubscribe: how many times the subscribe decorator is applied
MaxSubscribes == 3
\* SpecDownload: how many chunks the stream of one image has
MaxChunks == 2
\* SpecPaginate: how many items a listing has
MaxItems == 4

\* ------------------------------------------------------- program constants
\* asyncio.Semaphore(10)
ConcurrencyLimit == 10
\* slice_size = min(len(tasks), 100)
SliceSize == 100
\* DELTA = 360.0
DELTA == 360
\* paginate(page_size=100)
page_size == 100

VARIABLES
    the_events_tracker,   \* EventsTracker: tasks, counters
    async_tasks,          \* every asyncio task created by fire_event, by id
    concurrency_limiter,  \* value of the semaphore _concurrency_limiter
    main,                 \* the main coroutine: pc, the slice join() awaits,
                          \* the frames of synchronize_folders
    call,                 \* SpecSynced: the arguments and result of one call
    cfg,                  \* Config: sync (SyncAction), dry_run, force_refresh
    on_disk,              \* the RootFolder scanned from disk (models)
    on_line,              \* the RootFolder scanned from the service (models)
    disk,                 \* the file system under base_dir
    service,              \* the folders and albums the service holds
    effects,              \* mutating requests and file operations issued so far
    clock                 \* wall clock, epoch seconds

worldVars == <<cfg, on_disk, on_line, disk, service, effects, clock>>

vars == <<the_events_tracker, async_tasks, concurrency_limiter, main, call,
          cfg, on_disk, on_line, disk, service, effects, clock>>

None == [none |-> TRUE]

\* ------------------------------------------------------------ event kinds
\* events.OnlineEventGroup / events.DiskEventGroup
OnlineEventGroup ==
    [FOLDER_ADD |-> "upload_folder", ALBUM_ADD |-> "upload_album",
     FOLDER_DELETE |-> "delete_folder_online", ALBUM_DELETE |-> "delete_album_online",
     ALBUM_SYNC |-> "sync_album"]

DiskEventGroup ==
    [FOLDER_ADD |-> "download_folder", ALBUM_ADD |-> "download_album",
     FOLDER_DELETE |-> "delete_folder_disk", ALBUM_DELETE |-> "delete_album_disk",
     ALBUM_SYNC |-> "sync_album"]

EventTags ==
    {OnlineEventGroup[k] : k \in DOMAIN OnlineEventGroup} \cup
    {DiskEventGroup[k] : k \in DOMAIN DiskEventGroup}

\* the registry built by the @event_manager.subscribe decorators of handlers.py:
\* one handler under each tag (sync_albums under "sync_album")
event_handlers ==
    [e \in EventTags |->
        CASE e = "upload_folder" -> <<"upload_folder">>
          [] e = "download_folder" -> <<"download_folder">>
          [] e = "delete_folder_disk" -> <<"delete_folder_on_disk">>
          [] e = "delete_album_disk" -> <<"delete_album_on_disk">>
          [] e = "delete_folder_online" -> <<"delete_folder_online">>
          [] e = "delete_album_online" -> <<"delete_album_online">>
          [] e = "upload_album" -> <<"upload_album">>
          [] e = "download_album" -> <<"download_album">>
          [] e = "sync_album" -> <<"sync_albums">>]

\* ------------------------------------------------------------- dispatcher
NoData == [kind |-> "none"]

EventsTracker ==
    [tasks |-> <<>>,
     event_count_by_type |-> [e \in EventTags |-> 0],
     total_submitted |-> 0,
     total_processed |-> 0]

TaskIds == 1..Len(async_tasks)

TasksIn(st) == {t \in TaskIds : async_tasks[t].state = st}

\* The dispatcher state the operators below transform.
EM == [trk |-> the_events_tracker, at |-> async_tasks]

\* fire_event: create the task, append it to tasks, update the bookkeeping
fire_event(em, event, event_data) ==
    [trk |-> [em.trk EXCEPT !.tasks = Append(@, Len(em.at) + 1),
                            !.total_submitted = @ + 1,
                            !.event_count_by_type[event] = @ + 1],
     at |-> Append(em.at, [event |-> event, event_data |-> event_data,
                           state |-> "pending", handled |-> 0])]

\* asyncio.Semaphore.locked()
SemaphoreLockedUnbounded(value) == FALSE
SemaphoreLocked(value) == value <= 0

\* handle_event, entry: `async with _concurrency_limiter`.  The event loop
\* starts tasks in the order create_task made them and the semaphore wakes its
\* waiters first-in first-out: the next task to enter is the oldest pending.
handle_event_acquire(t) ==
    /\ async_tasks[t].state = "pending"
    /\ \A u \in 1..(t - 1) : async_tasks[u].state # "pending"
    /\ ~SemaphoreLocked(concurrency_limiter)
    /\ concurrency_limiter' = concurrency_limiter - 1
    /\ async_tasks' = [async_tasks EXCEPT ![t].state = "running"]

\* handle_event, bookkeeping after the handlers: total_processed += 1
handle_event_processed_forgotten(trk) == trk
handle_event_processed(trk) == [trk EXCEPT !.total_processed = @ + 1]

\* handle_event, one handler returned: the next handler, or the end of the
\* `async with` block (bookkeeping, release of the semaphore)
handle_event_handler_returned(em, t) ==
    LET n == em.at[t].handled + 1
        last == n >= Len(event_handlers[em.at[t].event])
    IN [trk |-> IF last THEN handle_event_processed(em.trk) ELSE em.trk,
        at |-> [em.at EXCEPT ![t].handled = n,
                             ![t].state = IF last THEN "done" ELSE "running"]]

\* handle_event, a handler raised: the `async with` block is left by the
\* exception, the task ends with it
handle_event_handler_raised(em, t) ==
    [trk |-> em.trk, at |-> [em.at EXCEPT ![t].state = "failed"]]

\* join, one evaluation of the loop condition and of the slicing
Min(a, b) == IF a <= b THEN a ELSE b

join_loop_if_not_while(m, trk) ==
    IF Len(trk.tasks) > 0 /\ m.pc # "gather"
    THEN LET slice_size == Min(Len(trk.tasks), SliceSize)
         IN [main |-> [m EXCEPT !.pc = "gather", !.rounds = Min(@ + 1, 2),
                                !.a_slice = SubSeq(trk.tasks, 1, slice_size)],
             trk |-> [trk EXCEPT !.tasks = SubSeq(@, slice_size + 1, Len(@))]]
    ELSE [main |-> [m EXCEPT !.pc = "join_returned", !.a_slice = <<>>],
          trk |-> trk]

join_loop_once(m, trk) ==
    IF Len(trk.tasks) > 0
    THEN LET slice_size == Min(Len(trk.tasks), SliceSize)
         IN [main |-> [m EXCEPT !.pc = "gather", !.rounds = Min(@ + 1, 2),
                                !.a_slice = SubSeq(trk.tasks, 1, slice_size)],
             trk |-> [trk EXCEPT !.tasks = SubSeq(@, slice_size + 1, Len(@))]]
    ELSE [main |-> [m EXCEPT !.pc = "join_returned", !.a_slice = <<>>],
          trk |-> trk]

Range(s) == {s[i] : i \in DOMAIN s}

\* asyncio.gather(*a_slice): raises the first exception of a task of the slice
gather_swallows(at, a_slice) == FALSE
gather_raises(at, a_slice) == \E t \in Range(a_slice) : at[t].state = "failed"

gather_finished(at, a_slice) ==
    \A t \in Range(a_slice) : at[t].state \in {"done", "failed"}

\* join: the call, up to the first gather (or the return, with nothing pending)
join_call(m, trk) == join_loop_once([m EXCEPT !.rounds = 0], trk)

\* join: gather returned, the loop goes round
join_gather_returns ==
    /\ main.pc = "gather"
    /\ ~gather_raises(async_tasks, main.a_slice)
    /\ gather_finished(async_tasks, main.a_slice)
    /\ LET r == join_loop_once(main, the_events_tracker)
       IN /\ main' = r.main
          /\ the_events_tracker' = r.trk
    /\ UNCHANGED <<async_tasks, concurrency_limiter, call, worldVars>>

\* join: gather raised; nothing is cancelled, the exception leaves join and
\* synchronize(), and the run ends
join_gather_raises ==
    /\ main.pc = "gather"
    /\ gather_raises(async_tasks, main.a_slice)
    /\ main' = [main EXCEPT !.pc = "raised"]
    /\ UNCHANGED <<the_events_tracker, async_tasks, concurrency_limiter, call, worldVars>>

\* handle_event starts for task t
handle_event_start(t) ==
    /\ main.pc # "raised"
    /\ handle_event_acquire(t)
    /\ UNCHANGED <<the_events_tracker, main, call, worldVars>>

\* ------------------------------------------------------------------ SpecEM
\* The dispatcher under an arbitrary publisher: the main coroutine fires
\* events and calls join; a running handler may fire events (fan-out), return
\* or raise.
NoCall == [kind |-> "none"]

MainInit == [pc |-> "walk", a_slice |-> <<>>, rounds |-> 0, frames |-> <<>>]

\* the dispatcher as the module's import leaves it
InitDispatcher ==
    /\ the_events_tracker = EventsTracker
    /\ async_tasks = <<>>
    /\ concurrency_limiter = ConcurrencyLimit
    /\ main = MainInit

\* no trees scanned, no configuration: the dispatcher is exercised alone
NoWorld ==
    /\ cfg = None
    /\ on_disk = None
    /\ on_line = None
    /\ disk = None
    /\ service = None
    /\ effects = {}
    /\ clock = 0

InitEM ==
    /\ InitDispatcher
    /\ call = NoCall
    /\ NoWorld

MainWalking == main.pc \in {"walk", "join_returned"}

EMPublish ==
    /\ MainWalking
    /\ Len(async_tasks) < MaxEvents
    /\ LET r == fire_event(EM, OnlineEventGroup.FOLDER_ADD, NoData)
       IN /\ the_events_tracker' = r.trk
          /\ async_tasks' = r.at
    /\ main' = [main EXCEPT !.pc = "walk"]
    /\ UNCHANGED <<concurrency_limiter, call, worldVars>>

EMCallJoin ==
    /\ MainWalking
    /\ LET r == join_call(main, the_events_tracker)
       IN /\ main' = r.main
          /\ the_events_tracker' = r.trk
    /\ UNCHANGED <<async_tasks, concurrency_limiter, call, worldVars>>

EMHandlerFires(t) ==
    /\ main.pc # "raised"
    /\ async_tasks[t].state = "running"
    /\ Len(async_tasks) < MaxEvents
    /\ LET r == fire_event(EM, OnlineEventGroup.FOLDER_ADD, NoData)
       IN /\ the_events_tracker' = r.trk
          /\ async_tasks' = r.at
    /\ UNCHANGED <<concurrency_limiter, main, call, worldVars>>

EMHandlerReturns(t) ==
    /\ main.pc # "raised"
    /\ async_tasks[t].state = "running"
    /\ LET r == handle_event_handler_returned(EM, t)
       IN /\ the_events_tracker' = r.trk
          /\ async_tasks' = r.at
          /\ concurrency_limiter' =
                IF r.at[t].state = "done" THEN concurrency_limiter + 1
                ELSE concurrency_limiter
    /\ UNCHANGED <<main, call, worldVars>>

EMHandlerRaises(t) ==
    /\ main.pc # "raised"
    /\ async_tasks[t].state = "running"
    /\ LET r == handle_event_handler_raised(EM, t)
       IN /\ the_events_tracker' = r.trk
          /\ async_tasks' = r.at
    /\ concurrency_limiter' = concurrency_limiter + 1
    /\ UNCHANGED <<main, call, worldVars>>

NextEM ==
    \/ EMPublish
    \/ EMCallJoin
    \/ join_gather_returns
    \/ join_gather_raises
    \/ \E t \in TaskIds : handle_event_start(t)
    \/ \E t \in TaskIds : EMHandlerFires(t)
    \/ \E t \in TaskIds : EMHandlerReturns(t)
    \/ \E t \in TaskIds : EMHandlerRaises(t)

SpecEM == InitEM /\ [][NextEM]_vars

\* ---------------------------------------------------------------- SpecLoad
\* The dispatcher under load: the publisher fires MaxLoad events in one go (a
\* loop of fire_event calls has no suspension point: no task starts before
\* the loop ends) and then joins.
RECURSIVE fire_events(_, _, _)
fire_events(em, event, n) ==
    IF n = 0 THEN em ELSE fire_events(fire_event(em, event, NoData), event, n - 1)

LoadPublish ==
    /\ main.pc = "walk"
    /\ async_tasks = <<>>
    /\ LET r == fire_events(EM, OnlineEventGroup.ALBUM_ADD, MaxLoad)
           j == join_call(main, r.trk)
       IN /\ the_events_tracker' = j.trk
          /\ async_tasks' = r.at
          /\ main' = j.main
    /\ UNCHANGED <<concurrency_limiter, call, worldVars>>

NextLoad ==
    \/ LoadPublish
    \/ join_gather_returns
    \/ join_gather_raises
    \/ \E t \in TaskIds : handle_event_start(t)
    \/ \E t \in TaskIds : EMHandlerReturns(t)
    \/ \E t \in TaskIds : EMHandlerRaises(t)

SpecLoad == InitEM /\ [][NextLoad]_vars

\* -------------------------------------------------------------- data model
\* Paths (PurePath, Path, uri) are sequences of names; relative_path, disk_path
\* (relative to base_dir) and uri (relative to the root folder's uri) of a node
\* are written with the same names.
Parent(p) == SubSeq(p, 1, Len(p) - 1)
Name(p) == p[Len(p)]
joinpath(p, n) == Append(p, n)
IsUnder(q, p) == Len(q) >= Len(p) /\ SubSeq(q, 1, Len(p)) = p

\* the names a folder or an album can have, in lexicographic order
NameOrder == <<"A", "B", "C", "F", "G">>
\* the file names of images, in lexicographic order
ImageNames == <<"1.jpg", "2.jpg", "3.jpg", "4.jpg">>
Img(i) == ImageNames[i]

\* sorted(names)
sorted_descending(names) == [i \in 1..Cardinality(names \cap Range(NameOrder)) |-> SelectSeq(NameOrder, LAMBDA n : n \in names)[Cardinality(names \cap Range(NameOrder)) + 1 - i]]
sorted(names) == SelectSeq(NameOrder, LAMBDA n : n \in names)
sorted_images(filenames) == SelectSeq(ImageNames, LAMBDA f : f \in filenames)
NameBefore(f, g) ==
    \E i, j \in DOMAIN ImageNames : i < j /\ ImageNames[i] = f /\ ImageNames[j] = g

\* dict assignment d[k] = v and deletion of keys
Put(d, k, v) == (k :> v) @@ d
Drop(d, keys) == [k \in DOMAIN d \ keys |-> d[k]]

\* Album.images when loaded: the file names of the list (an Image is its
\* album's relative_path joined with its file name)
ImageList(filenames) == [list |-> filenames]

\* models.Folder
Folder(relative_path, disk_info, online_info) ==
    [relative_path |-> relative_path, disk_info |-> disk_info,
     online_info |-> online_info]

\* models.Album; images is None until loaded, else the list of file names
Album(relative_path, disk_info, online_info, images, image_count) ==
    [relative_path |-> relative_path, disk_info |-> disk_info,
     online_info |-> online_info, images |-> images, image_count |-> image_count]

\* disk.SyncData
SyncData(sync_time, online_time, disk_time) ==
    [sync_time |-> sync_time, online_time |-> online_time, disk_time |-> disk_time]

\* disk.DiskFolderInfo
DiskFolderInfo(disk_path) == [disk_path |-> disk_path]

\* disk.DiskAlbumInfo after __post_init__: sync_data read from the sync file
DiskAlbumInfo(fs, disk_path) ==
    [disk_path |-> disk_path,
     sync_data |-> IF disk_path \in DOMAIN fs THEN fs[disk_path].sync_file ELSE None]

\* smugmug.SmugmugFolder
SmugmugFolder(uri) == [uri |-> uri]

\* smugmug.SmugmugAlbum: the record as the service returned it
SmugmugAlbum(uri, last_updated, image_count) ==
    [uri |-> uri, last_updated |-> last_updated, image_count |-> image_count]

\* a directory of the file system
Directory(mtime, images, sync_file) ==
    [mtime |-> mtime, images |-> images, sync_file |-> sync_file]

\* ------------------------------------------------------- sync-state cache
\* DiskAlbumInfo.last_updated: lstat of the album directory
DiskAlbumInfo_last_updated(fs, disk_info) == fs[disk_info.disk_path].mtime

Abs(x) == IF x < 0 THEN -x ELSE x

\* sync.albums_already_synced
albums_already_synced(fs, disk_album, online_album, force_refresh) ==
    LET disk_info == disk_album.disk_info
        online_info == online_album.online_info
    IN IF force_refresh
       THEN FALSE
       ELSE IF disk_info.sync_data = None
       THEN FALSE
       ELSE IF Abs(disk_info.sync_data.online_time - online_info.last_updated) > DELTA
       THEN FALSE
       ELSE IF Abs(disk_info.sync_data.disk_time
                   - DiskAlbumInfo_last_updated(fs, disk_info)) > DELTA
       THEN TRUE
       ELSE TRUE

\* -------------------------------------------------------------- SpecSynced
\* albums_already_synced on one disk album and one remote album: a triplet
\* recorded at LastSync (or none), and the remote last_updated and the
\* directory mtime up to DELTA + MaxSkew seconds away from it on either side.
LastSync == 3 * DELTA

Around(t) ==
    {t} \cup {t + d : d \in (DELTA - MaxSkew)..(DELTA + MaxSkew)}
        \cup {t - d : d \in (DELTA - MaxSkew)..(DELTA + MaxSkew)}

InitSynced ==
    /\ InitDispatcher
    /\ cfg = None /\ on_disk = None /\ on_line = None /\ service = None
    /\ effects = {} /\ clock = 0
    /\ \E sync_data \in {None, SyncData(LastSync, LastSync, LastSync)},
          mtime \in Around(LastSync), last_updated \in Around(LastSync),
          force_refresh \in BOOLEAN :
          /\ disk = (<<"A">> :> Directory(mtime, {Img(1)}, sync_data))
          /\ call = [kind |-> "albums_already_synced",
                     disk_album |-> Album(<<"A">>, DiskAlbumInfo(disk, <<"A">>), None,
                                          ImageList({Img(1)}), 1),
                     online_album |-> Album(<<"A">>, None,
                                            SmugmugAlbum(<<"A">>, last_updated, 1),
                                            None, 1),
                     force_refresh |-> force_refresh,
                     returned |-> FALSE, ret |-> FALSE]

SyncedReturn ==
    /\ call.kind = "albums_already_synced"
    /\ ~call.returned
    /\ call' = [call EXCEPT !.returned = TRUE,
                            !.ret = albums_already_synced(disk, call.disk_album,
                                                          call.online_album,
                                                          call.force_refresh)]
    /\ UNCHANGED <<the_events_tracker, async_tasks, concurrency_limiter, main, worldVars>>

NextSynced == SyncedReturn

SpecSynced == InitSynced /\ [][NextSynced]_vars

\* ------------------------------------------------------------------ policy
\* policy.SyncAction
SyncAction(download, upload, delete_on_disk, delete_online) ==
    [download |-> download, upload |-> upload,
     delete_on_disk |-> delete_on_disk, delete_online |-> delete_online]

\* policy.SyncActionPresets
SyncActionPresets ==
    [local_backup |-> SyncAction(TRUE, FALSE, FALSE, FALSE),
     local_backup_clean |-> SyncAction(TRUE, FALSE, TRUE, FALSE),
     online_backup |-> SyncAction(FALSE, TRUE, FALSE, FALSE),
     online_backup_clean |-> SyncAction(FALSE, TRUE, FALSE, TRUE),
     test |-> SyncAction(FALSE, FALSE, FALSE, FALSE)]

\* EventGroup.delete_permitted
delete_permitted_always(event_group, sync_action) == TRUE
delete_permitted(event_group, sync_action) ==
    IF event_group = OnlineEventGroup
    THEN sync_action.delete_online
    ELSE sync_action.delete_on_disk

\* synchronize: the event group the policy selects (None: neither direction)
event_group_of(sync_action) ==
    IF sync_action.upload THEN OnlineEventGroup
    ELSE IF sync_action.download THEN DiskEventGroup
    ELSE None

\* ------------------------------------------------------------------- trees
\* A RootFolder with everything under it: the folders and the albums by their
\* place in the tree (the chain of dict keys from the root; the root is <<>>).
RootFolder(folders, albums) == [folders |-> folders, albums |-> albums]

\* Folder.sub_folders.keys() / Folder.albums.keys() of the folder at loc
sub_folders(tree, loc) ==
    {Name(q) : q \in {q \in DOMAIN tree.folders : q # <<>> /\ Parent(q) = loc}}
albums(tree, loc) ==
    {Name(q) : q \in {q \in DOMAIN tree.albums : Parent(q) = loc}}

\* Album.requires_image_load
requires_image_load(album) ==
    \/ album.images = None
    \/ album.image_count > Cardinality(album.images.list)

\* Image.relative_path of the images of an album's list
relative_paths(album) ==
    IF album.images = None THEN {}
    ELSE {joinpath(album.relative_path, f) : f \in album.images.list}

\* disk_scanner.scan: a directory with images is an album, one without images
\* and with sub-directories is a folder, an empty one is skipped; a directory
\* whose parent is not a folder is skipped with its subtree
RECURSIVE is_scanned_folder(_, _)
is_scanned_folder(fs, p) ==
    \/ p = <<>>
    \/ /\ is_scanned_folder(fs, Parent(p))
       /\ fs[p].images = {}
       /\ \E q \in DOMAIN fs : q # <<>> /\ Parent(q) = p

disk_scanner_scan(fs) ==
    LET fpaths == {p \in DOMAIN fs : is_scanned_folder(fs, p)}
        apaths == {p \in DOMAIN fs : /\ p # <<>>
                                      /\ fs[p].images # {}
                                      /\ is_scanned_folder(fs, Parent(p))}
    IN RootFolder(
         [p \in fpaths |-> Folder(p, DiskFolderInfo(p), None)],
         [p \in apaths |-> Album(p, DiskAlbumInfo(fs, p), None,
                                 ImageList(fs[p].images),
                                 Cardinality(fs[p].images))])

\* online_scanner.scan: every folder and album record of the account; the
\* images of an album are not listed, image_count is the record's ImageCount
online_scanner_scan(svc) ==
    RootFolder(
      [p \in svc.folders |-> Folder(p, None, SmugmugFolder(p))],
      [p \in DOMAIN svc.albums |->
          Album(p, None,
                SmugmugAlbum(p, svc.albums[p].last_updated,
                             Cardinality(svc.albums[p].images)),
                None, Cardinality(svc.albums[p].images))])

\* ------------------------------------------------------------------- world
\* What a coroutine (the walk, or one handler) reads and changes between two
\* suspension points: the two trees, the file system, the service, the
\* dispatcher, the requests issued; `ret` is the value returned by the last
\* call, `raised` an exception on its way up, `awaited` a request to the
\* service having been awaited.
World(by) ==
    [on_disk |-> on_disk, on_line |-> on_line, disk |-> disk, service |-> service,
     effects |-> effects, em |-> EM, by |-> by,
     ret |-> None, raised |-> FALSE, awaited |-> FALSE,
     transport |-> [fault |-> None, took |-> 0]]

\* What the network does to the image transfers of one coroutine: `fault` is
\* None, or the number of images that get through before a transport error
\* that outlives the retries; `took` is how many seconds after the start of the
\* run the service stamps an upload.
Transport(fault, took) == [fault |-> fault, took |-> took]
Fault(after) == [after |-> after]
Transports ==
    {Transport(fault, took) :
        fault \in {None} \cup {Fault(k) : k \in 0..(MaxImages - 1)},
        took \in 0..MaxSkew}
Over(w, transport) == [w EXCEPT !.transport = transport]

Raise(w) == [w EXCEPT !.raised = TRUE]
Return(w, value) == [w EXCEPT !.ret = value]
Returned(w, value) == IF w.raised THEN w ELSE Return(w, value)

\* a mutating request to the service, or a change of the file system
effect(w, op, target) ==
    [w EXCEPT !.effects = @ \cup {[op |-> op, target |-> target, by |-> w.by]}]

fire(w, event, event_data) == [w EXCEPT !.em = fire_event(@, event, event_data)]

RECURSIVE fire_each(_, _, _)
fire_each(w, event, datas) ==
    IF datas = <<>> THEN w
    ELSE fire_each(fire(w, event, Head(datas)), event, Tail(datas))

\* events.FolderEventData, AlbumEventData, SyncAlbumImagesEventData,
\* DeleteFolderEventData / DeleteAlbumEventData: nodes are held by reference,
\* here their place in their tree
FolderEventData(source_folder, target_parent) ==
    [kind |-> "folder", source_folder |-> source_folder, target_parent |-> target_parent]
AlbumEventData(source_album, target_parent) ==
    [kind |-> "album", source_album |-> source_album, target_parent |-> target_parent]
SyncAlbumImagesEventData(disk_album, online_album, sync_action) ==
    [kind |-> "sync", disk_album |-> disk_album, online_album |-> online_album,
     sync_action |-> sync_action]
DeleteEventData(target, parent) ==
    [kind |-> "delete", target |-> target, parent |-> parent]

\* ----------------------------------------------------------------- disk.py
\* DiskAlbumInfo.remember_sync(online_time), online_time a time: disk_time is
\* the directory's mtime read before the file is written; creating the file
\* (not rewriting it) makes the directory's mtime the current time
remember_sync(w, loc, online_time) ==
    IF w.raised THEN w
    ELSE LET path == w.on_disk.albums[loc].disk_info.disk_path
         IN IF path \notin DOMAIN w.disk
            THEN Raise(w)
            ELSE LET sync_data == SyncData(clock, online_time, w.disk[path].mtime)
                     created == w.disk[path].sync_file = None
                 IN [effect(w, "write_sync", path) EXCEPT
                        !.on_disk.albums[loc].disk_info.sync_data = sync_data,
                        !.disk[path].sync_file = sync_data,
                        !.disk[path].mtime = IF created THEN clock ELSE @]

\* mkdir(exist_ok=True)
mkdir(w, path) ==
    IF path \in DOMAIN w.disk THEN w
    ELSE IF Parent(path) \notin DOMAIN w.disk THEN Raise(w)
    ELSE [effect(w, "mkdir", path) EXCEPT
             !.disk = Put(@, path, Directory(clock, {}, None))]

\* shutil.rmtree
rmtree(w, path) ==
    IF path \notin DOMAIN w.disk THEN Raise(w)
    ELSE [effect(w, "rmtree", path) EXCEPT
             !.disk = Drop(@, {q \in DOMAIN w.disk : IsUnder(q, path)})]

\* disk.create_folder
disk_create_folder(w, parent, folder_name, dry_run) ==
    IF w.raised THEN w
    ELSE Returned(IF dry_run THEN w
                  ELSE mkdir(w, joinpath(parent.disk_info.disk_path, folder_name)),
                  DiskFolderInfo(joinpath(parent.disk_info.disk_path, folder_name)))

\* disk.create_album_disk_info: DiskAlbumInfo reads the sync file of the
\* directory as it is after the mkdir
album_disk_info(w, album_disk_path) ==
    IF w.raised THEN w ELSE Return(w, DiskAlbumInfo(w.disk, album_disk_path))

create_album_disk_info(w, parent_disk_path, album_name, dry_run) ==
    IF w.raised THEN w
    ELSE album_disk_info(IF dry_run THEN w
                         ELSE mkdir(w, joinpath(parent_disk_path, album_name)),
                         joinpath(parent_disk_path, album_name))

\* disk.load_album_images: iterdir of a missing directory raises
disk_load_album_images(w, loc) ==
    IF w.raised THEN w
    ELSE LET path == w.on_disk.albums[loc].disk_info.disk_path
         IN IF path \notin DOMAIN w.disk
            THEN Raise(w)
            ELSE [w EXCEPT
                    !.on_disk.albums[loc].images = ImageList(w.disk[path].images),
                    !.on_disk.albums[loc].image_count = Cardinality(w.disk[path].images)]

\* disk.delete_image_from_disk
delete_image_from_disk(w, path, filename, dry_run) ==
    IF w.raised \/ dry_run THEN w
    ELSE IF path \notin DOMAIN w.disk THEN Raise(w)
    ELSE IF filename \notin w.disk[path].images THEN Raise(w)
    ELSE [effect(w, "unlink", joinpath(path, filename)) EXCEPT
             !.disk[path].images = @ \ {filename}, !.disk[path].mtime = clock]

\* -------------------------------------------------------- online/online.py
\* the service answers a request on a uri it does not hold with an error
\* OnlineConnection.create_folder
connection_create_folder(w, parent, folder_name, dry_run) ==
    IF w.raised THEN w
    ELSE IF dry_run THEN Return(w, None)
    ELSE IF parent.online_info = None THEN Raise(w)
    ELSE IF parent.online_info.uri \notin w.service.folders THEN Raise(w)
    ELSE LET uri == joinpath(parent.online_info.uri, folder_name)
         IN Return([effect(w, "create_folder", uri) EXCEPT
                       !.service.folders = @ \cup {uri}],
                   SmugmugFolder(uri))

\* OnlineConnection.create_album_online_info
connection_create_album_online_info(w, parent, album_name, dry_run) ==
    IF w.raised THEN w
    ELSE IF dry_run THEN Return(w, None)
    ELSE IF parent.online_info = None THEN Raise(w)
    ELSE IF parent.online_info.uri \notin w.service.folders THEN Raise(w)
    ELSE LET uri == joinpath(parent.online_info.uri, album_name)
         IN Return([effect(w, "create_album", uri) EXCEPT
                       !.service.albums =
                           Put(@, uri, [images |-> {}, processing |-> {}, last_updated |-> clock]),
                       !.awaited = TRUE],
                   SmugmugAlbum(uri, clock, 0))

\* the images of a transfer that get through, one request per image in the
\* order of the list, and whether a request failed for good
transferred(w, image_names) ==
    IF w.transport.fault = None THEN image_names
    ELSE {f \in image_names :
            Cardinality({g \in image_names : NameBefore(g, f)}) < w.transport.fault.after}
transport_error(w, image_names) ==
    /\ w.transport.fault # None
    /\ w.transport.fault.after < Cardinality(image_names)
transfer_ended(w, image_names, target) ==
    IF transport_error(w, image_names)
    THEN Raise(effect(w, "transport_error", target))
    ELSE w

\* OnlineConnection.upload_images: one upload request per image
upload_images_ignoring_dry_run(w, image_names, to_album_uri, dry_run) ==
    IF w.raised THEN w
    ELSE IF to_album_uri \notin DOMAIN w.service.albums THEN Raise(w)
    ELSE [transfer_ended(w, image_names, to_album_uri) EXCEPT
            !.service.albums[to_album_uri].images = @ \cup transferred(w, image_names),
            !.service.albums[to_album_uri].last_updated =
                IF transferred(w, image_names) = {} THEN @ ELSE clock + w.transport.took,
            !.effects = @ \cup {[op |-> "upload", target |-> joinpath(to_album_uri, f),
                                 by |-> w.by] : f \in transferred(w, image_names)},
            !.awaited = TRUE]
upload_images(w, image_names, to_album_uri, dry_run) ==
    IF w.raised \/ dry_run THEN w
    ELSE IF to_album_uri \notin DOMAIN w.service.albums THEN Raise(w)
    ELSE [transfer_ended(w, image_names, to_album_uri) EXCEPT
            !.service.albums[to_album_uri].images = @ \cup transferred(w, image_names),
            !.service.albums[to_album_uri].last_updated =
                IF transferred(w, image_names) = {} THEN @ ELSE clock + w.transport.took,
            !.effects = @ \cup {[op |-> "upload", target |-> joinpath(to_album_uri, f),
                                 by |-> w.by] : f \in transferred(w, image_names)},
            !.awaited = TRUE]

\* OnlineConnection.download_images: one download per image into to_folder
download_images(w, image_names, to_folder, dry_run) ==
    IF w.raised \/ dry_run THEN w
    ELSE IF to_folder \notin DOMAIN w.disk THEN Raise(w)
    ELSE [transfer_ended(w, image_names, to_folder) EXCEPT
            !.disk[to_folder].images = @ \cup transferred(w, image_names),
            !.disk[to_folder].mtime =
                IF transferred(w, image_names) = {} THEN @ ELSE clock,
            !.effects = @ \cup {[op |-> "download", target |-> joinpath(to_folder, f),
                                 by |-> w.by] : f \in transferred(w, image_names)},
            !.awaited = TRUE]

\* OnlineConnection.delete: the uri of a folder, of an album or of an image
connection_delete(w, uri, dry_run) ==
    IF w.raised THEN w
    ELSE IF dry_run THEN Return(w, FALSE)
    ELSE IF uri \in w.service.folders \/ uri \in DOMAIN w.service.albums
    THEN Return([effect(w, "delete", uri) EXCEPT
                    !.service.folders = {q \in @ : ~IsUnder(q, uri)},
                    !.service.albums =
                        Drop(@, {q \in DOMAIN w.service.albums : IsUnder(q, uri)}),
                    !.awaited = TRUE],
                TRUE)
    ELSE IF /\ Parent(uri) \in DOMAIN w.service.albums
            /\ Name(uri) \in w.service.albums[Parent(uri)].images
    THEN Return([effect(w, "delete", uri) EXCEPT
                    !.service.albums[Parent(uri)].images = @ \ {Name(uri)},
                    !.service.albums[Parent(uri)].processing = @ \ {Name(uri)},
                    !.service.albums[Parent(uri)].last_updated = clock,
                    !.awaited = TRUE],
                TRUE)
    ELSE Raise(w)

\* online.load_album_images: the album's images as the service lists them,
\* without those whose record has Processing set
online_load_album_images_with_processing(w, loc) ==
    IF w.raised THEN w
    ELSE LET online_info == w.on_line.albums[loc].online_info
         IN IF online_info = None THEN Raise(w)
            ELSE IF online_info.uri \notin DOMAIN w.service.albums THEN Raise(w)
            ELSE [w EXCEPT
                    !.on_line.albums[loc].images =
                        ImageList(w.service.albums[online_info.uri].images),
                    !.awaited = TRUE]
online_load_album_images(w, loc) ==
    IF w.raised THEN w
    ELSE LET online_info == w.on_line.albums[loc].online_info
         IN IF online_info = None THEN Raise(w)
            ELSE IF online_info.uri \notin DOMAIN w.service.albums THEN Raise(w)
            ELSE [w EXCEPT
                    !.on_line.albums[loc].images =
                        ImageList(w.service.albums[online_info.uri].images
                                    \ w.service.albums[online_info.uri].processing),
                    !.awaited = TRUE]

\* ------------------------------------------------------------- handlers.py
\* `if album.requires_image_load: load_album_images(album)`
load_online_if_required(w, online_album) ==
    IF ~w.raised /\ requires_image_load(w.on_line.albums[online_album])
    THEN online_load_album_images(w, online_album) ELSE w

load_disk_if_required(w, disk_album) ==
    IF ~w.raised /\ requires_image_load(w.on_disk.albums[disk_album])
    THEN disk_load_album_images(w, disk_album) ELSE w

\* handlers.upload_missing_images
upload_missing_images(w, from_disk_album, to_online_album, dry_run) ==
    IF w.raised THEN w
    ELSE LET from == w.on_disk.albums[from_disk_album]
             to == w.on_line.albums[to_online_album]
             online_images_by_relative_path == relative_paths(to)
         IN IF from.images = None THEN Raise(w)
            ELSE LET images_to_upload ==
                         {f \in from.images.list :
                             joinpath(from.relative_path, f)
                                 \notin online_images_by_relative_path}
                 IN IF images_to_upload = {} THEN Return(w, FALSE)
                    ELSE IF to.online_info = None THEN Raise(w)
                    ELSE Returned(online_load_album_images(
                                      upload_images(w, images_to_upload,
                                                    to.online_info.uri, dry_run),
                                      to_online_album),
                                  TRUE)

\* handlers.download_missing_images, from line 285: both lists are loaded
download_missing_images_loaded(w, from_online_album, to_disk_album, dry_run) ==
    IF w.raised THEN w
    ELSE LET from == w.on_line.albums[from_online_album]
             to == w.on_disk.albums[to_disk_album]
             disk_images_by_relative_path == relative_paths(to)
             missing_images ==
                 {f \in from.images.list :
                     joinpath(from.relative_path, f) \notin disk_images_by_relative_path}
         IN IF missing_images = {} THEN Return(w, FALSE)
            ELSE Returned(disk_load_album_images(
                              download_images(w, missing_images,
                                              to.disk_info.disk_path, dry_run),
                              to_disk_album),
                          TRUE)

\* handlers.download_missing_images
download_missing_images(w, from_online_album, to_disk_album, dry_run) ==
    download_missing_images_loaded(
        load_disk_if_required(load_online_if_required(w, from_online_album),
                              to_disk_album),
        from_online_album, to_disk_album, dry_run)

\* handlers.upload_folder, from line 28: the folder is created.  The loop
\* over the sub-folders rebinds event_data, so the loop over the albums reads
\* source_folder from the event data of the last sub-folder when there is
\* one.  values() lists the children in the order the scanner met them;
\* sorted() stands for it.
upload_folder_created_unjoined(w, event_data) ==
    IF w.raised THEN w
    ELSE LET name == Name(w.on_disk.folders[event_data.source_folder].relative_path)
             folder == Folder(<<name>>, None, w.ret)
             folder_ref == joinpath(event_data.target_parent, name)
             subs == sorted(sub_folders(w.on_disk, event_data.source_folder))
             sub_event_data ==
                 [i \in DOMAIN subs |->
                     FolderEventData(joinpath(event_data.source_folder, subs[i]),
                                     folder_ref)]
             last_source_folder ==
                 IF subs = <<>> THEN event_data.source_folder
                 ELSE joinpath(event_data.source_folder, subs[Len(subs)])
             albs == sorted(albums(w.on_disk, last_source_folder))
             album_event_data ==
                 [i \in DOMAIN albs |->
                     AlbumEventData(joinpath(last_source_folder, albs[i]), folder_ref)]
         IN Return(fire_each(
                       fire_each([w EXCEPT !.on_line.folders = Put(@, folder_ref, folder)],
                                 OnlineEventGroup.FOLDER_ADD, sub_event_data),
                       OnlineEventGroup.ALBUM_ADD, album_event_data),
                   FALSE)
upload_folder_created(w, event_data) ==
    IF w.raised THEN w
    ELSE LET name == Name(w.on_disk.folders[event_data.source_folder].relative_path)
             folder == Folder(joinpath(w.on_line.folders[event_data.target_parent]
                                          .relative_path, name),
                              None, w.ret)
             folder_ref == joinpath(event_data.target_parent, name)
             subs == sorted(sub_folders(w.on_disk, event_data.source_folder))
             sub_event_data ==
                 [i \in DOMAIN subs |->
                     FolderEventData(joinpath(event_data.source_folder, subs[i]),
                                     folder_ref)]
             last_source_folder ==
                 IF subs = <<>> THEN event_data.source_folder
                 ELSE joinpath(event_data.source_folder, subs[Len(subs)])
             albs == sorted(albums(w.on_disk, last_source_folder))
             album_event_data ==
                 [i \in DOMAIN albs |->
                     AlbumEventData(joinpath(last_source_folder, albs[i]), folder_ref)]
         IN Return(fire_each(
                       fire_each([w EXCEPT !.on_line.folders = Put(@, folder_ref, folder)],
                                 OnlineEventGroup.FOLDER_ADD, sub_event_data),
                       OnlineEventGroup.ALBUM_ADD, album_event_data),
                   FALSE)

\* handlers.upload_folder
upload_folder(w, event_data, dry_run) ==
    upload_folder_created(
        connection_create_folder(
            w, w.on_line.folders[event_data.target_parent],
            Name(w.on_disk.folders[event_data.source_folder].relative_path), dry_run),
        event_data)

\* handlers.download_folder, from line 83: the same shape, the folder on disk
download_folder_created(w, event_data) ==
    IF w.raised THEN w
    ELSE LET relative_path == w.on_line.folders[event_data.source_folder].relative_path
             folder == Folder(relative_path, w.ret, None)
             folder_ref == joinpath(event_data.target_parent, Name(relative_path))
             subs == sorted(sub_folders(w.on_line, event_data.source_folder))
             sub_event_data ==
                 [i \in DOMAIN subs |->
                     FolderEventData(joinpath(event_data.source_folder, subs[i]),
                                     folder_ref)]
             last_source_folder ==
                 IF subs = <<>> THEN event_data.source_folder
                 ELSE joinpath(event_data.source_folder, subs[Len(subs)])
             albs == sorted(albums(w.on_line, last_source_folder))
             album_event_data ==
                 [i \in DOMAIN albs |->
                     AlbumEventData(joinpath(last_source_folder, albs[i]), folder_ref)]
         IN Return(fire_each(
                       fire_each([w EXCEPT !.on_disk.folders = Put(@, folder_ref, folder)],
                                 DiskEventGroup.FOLDER_ADD, sub_event_data),
                       DiskEventGroup.ALBUM_ADD, album_event_data),
                   FALSE)

\* handlers.download_folder
download_folder(w, event_data, dry_run) ==
    download_folder_created(
        disk_create_folder(
            w, w.on_disk.folders[event_data.target_parent],
            Name(w.on_line.folders[event_data.source_folder].relative_path), dry_run),
        event_data)

\* `del parent.sub_folders[name]` / `del parent.albums[name]`: the node and
\* what hangs under it leave the tree; KeyError when the key is missing
del_sub_folder(w, tree, key) ==
    IF w.raised THEN w
    ELSE IF key \notin DOMAIN w[tree].folders THEN Raise(w)
    ELSE [w EXCEPT
            ![tree].folders = Drop(@, {q \in DOMAIN w[tree].folders : IsUnder(q, key)}),
            ![tree].albums = Drop(@, {q \in DOMAIN w[tree].albums : IsUnder(q, key)})]

del_album(w, tree, key) ==
    IF w.raised THEN w
    ELSE IF key \notin DOMAIN w[tree].albums THEN Raise(w)
    ELSE [w EXCEPT ![tree].albums = Drop(@, {key})]

\* handlers.delete_folder_on_disk / delete_album_on_disk
delete_folder_on_disk(w, event_data, dry_run) ==
    LET target == w.on_disk.folders[event_data.target]
    IN Returned(del_sub_folder(IF dry_run THEN w
                               ELSE rmtree(w, target.disk_info.disk_path),
                               "on_disk",
                               joinpath(event_data.parent, Name(target.relative_path))),
                TRUE)

delete_album_on_disk(w, event_data, dry_run) ==
    LET target == w.on_disk.albums[event_data.target]
    IN Returned(del_album(IF dry_run THEN w
                          ELSE rmtree(w, target.disk_info.disk_path),
                          "on_disk",
                          joinpath(event_data.parent, Name(target.relative_path))),
                TRUE)

\* handlers.delete_folder_online / delete_album_online
delete_folder_online(w, event_data, dry_run) ==
    LET target == w.on_line.folders[event_data.target]
    IN del_sub_folder(connection_delete(w, target.online_info.uri, dry_run),
                      "on_line",
                      joinpath(event_data.parent, Name(target.relative_path)))

delete_album_online(w, event_data, dry_run) ==
    LET target == w.on_line.albums[event_data.target]
    IN del_album(connection_delete(w, target.online_info.uri, dry_run),
                 "on_line",
                 joinpath(event_data.parent, Name(target.relative_path)))

\* Album.reset_images
reset_images(album) == [album EXCEPT !.images = None]

\* handlers.upload_album, from line 184: the images are uploaded
upload_album_uploaded(w, event_data, album_ref, online_info, dry_run) ==
    IF w.raised THEN w
    ELSE IF w.ret /\ ~dry_run
    THEN Returned(remember_sync(
                      [w EXCEPT !.on_line.albums[album_ref] = reset_images(@)],
                      event_data.source_album, online_info.last_updated),
                  TRUE)
    ELSE Return(w, TRUE)

\* handlers.upload_album, from line 169: the album is created
upload_album_created(w, event_data, dry_run) ==
    IF w.raised THEN w
    ELSE LET relative_path == w.on_disk.albums[event_data.source_album].relative_path
             album == Album(relative_path, None, w.ret, None, 0)
             album_ref == joinpath(event_data.target_parent, Name(relative_path))
         IN upload_album_uploaded(
                upload_missing_images(
                    [w EXCEPT !.on_line.albums = Put(@, album_ref, album)],
                    event_data.source_album, album_ref, dry_run),
                event_data, album_ref, w.ret, dry_run)

\* handlers.upload_album
upload_album(w, event_data, dry_run) ==
    upload_album_created(
        connection_create_album_online_info(
            w, w.on_line.folders[event_data.target_parent],
            Name(w.on_disk.albums[event_data.source_album].relative_path), dry_run),
        event_data, dry_run)

\* handlers.download_album, from line 213: the images are downloaded
download_album_downloaded(w, event_data, album_ref, dry_run) ==
    IF w.raised THEN w
    ELSE IF w.ret /\ ~dry_run
    THEN Returned(remember_sync(
                      [w EXCEPT !.on_disk.albums[album_ref] = reset_images(@)],
                      album_ref,
                      w.on_line.albums[event_data.source_album].online_info.last_updated),
                  TRUE)
    ELSE w

\* handlers.download_album, from line 202: the directory is made
download_album_created(w, event_data, dry_run) ==
    IF w.raised THEN w
    ELSE LET relative_path == w.on_line.albums[event_data.source_album].relative_path
             disk_album == Album(relative_path, w.ret, None, None, 0)
             album_ref == joinpath(event_data.target_parent, Name(relative_path))
         IN download_album_downloaded(
                download_missing_images(
                    [w EXCEPT !.on_disk.albums = Put(@, album_ref, disk_album)],
                    event_data.source_album, album_ref, dry_run),
                event_data, album_ref, dry_run)

\* handlers.download_album
download_album(w, event_data, dry_run) ==
    download_album_created(
        create_album_disk_info(
            w, w.on_disk.folders[event_data.target_parent].disk_info.disk_path,
            Name(w.on_line.albums[event_data.source_album].relative_path), dry_run),
        event_data, dry_run)

\* sync_albums, lines 246-251: delete from disk the images the remote album
\* lacks (comparison by relative path)
RECURSIVE delete_missing_on_disk(_, _, _, _)
delete_missing_on_disk(w, event_data, images, dry_run) ==
    IF w.raised \/ images = <<>> THEN w
    ELSE LET disk_album == w.on_disk.albums[event_data.disk_album]
             online_album == w.on_line.albums[event_data.online_album]
         IN delete_missing_on_disk(
                IF joinpath(disk_album.relative_path, Head(images))
                       \notin relative_paths(online_album)
                THEN delete_image_from_disk(w, disk_album.disk_info.disk_path,
                                            Head(images), dry_run)
                ELSE w,
                event_data, Tail(images), dry_run)

\* sync_albums, lines 253-257: delete online the images the disk album lacks
RECURSIVE delete_missing_online(_, _, _, _)
delete_missing_online(w, event_data, images, dry_run) ==
    IF w.raised \/ images = <<>> THEN w
    ELSE LET disk_album == w.on_disk.albums[event_data.disk_album]
             online_album == w.on_line.albums[event_data.online_album]
         IN delete_missing_online(
                IF joinpath(online_album.relative_path, Head(images))
                       \notin relative_paths(disk_album)
                THEN connection_delete(
                         w, joinpath(online_album.online_info.uri, Head(images)), dry_run)
                ELSE w,
                event_data, Tail(images), dry_run)

\* sync_albums, lines 263-265: the sync data, when not dry_run
sync_albums_remember(w, event_data, dry_run) ==
    IF w.raised \/ dry_run THEN w
    ELSE remember_sync(w, event_data.disk_album,
                       w.on_line.albums[event_data.online_album].online_info.last_updated)

\* sync_albums, lines 259-267
sync_albums_changed(w, changed, event_data, dry_run) ==
    IF w.raised THEN w
    ELSE IF changed
    THEN Returned(sync_albums_remember(
                      online_load_album_images(
                          disk_load_album_images(w, event_data.disk_album),
                          event_data.online_album),
                      event_data, dry_run),
                  changed)
    ELSE Return(w, changed)

\* sync_albums, lines 253-257
sync_albums_delete_online(w, changed, event_data, dry_run) ==
    IF w.raised THEN w
    ELSE sync_albums_changed(
             IF event_data.sync_action.delete_online
             THEN delete_missing_online(
                      w, event_data,
                      sorted_images(w.on_line.albums[event_data.online_album].images.list),
                      dry_run)
             ELSE w,
             changed, event_data, dry_run)

\* sync_albums, lines 246-251
sync_albums_delete_on_disk(w, changed, event_data, dry_run) ==
    IF w.raised THEN w
    ELSE sync_albums_delete_online(
             IF event_data.sync_action.delete_on_disk
             THEN delete_missing_on_disk(
                      w, event_data,
                      sorted_images(w.on_disk.albums[event_data.disk_album].images.list),
                      dry_run)
             ELSE w,
             changed \/ w.ret, event_data, dry_run)

\* sync_albums, lines 238-244
sync_albums_upload(w, event_data, dry_run) ==
    IF w.raised THEN w
    ELSE sync_albums_delete_on_disk(
             IF event_data.sync_action.upload
             THEN upload_missing_images(w, event_data.disk_album,
                                        event_data.online_album, dry_run)
             ELSE Return(w, FALSE),
             w.ret, event_data, dry_run)

\* sync_albums, lines 230-236
sync_albums_download(w, event_data, dry_run) ==
    IF w.raised THEN w
    ELSE sync_albums_upload(
             IF event_data.sync_action.download
             THEN download_missing_images(w, event_data.online_album,
                                          event_data.disk_album, dry_run)
             ELSE Return(w, FALSE),
             event_data, dry_run)

\* handlers.sync_albums
sync_albums(w, event_data, dry_run) ==
    sync_albums_download(
        load_disk_if_required(load_online_if_required(w, event_data.online_album),
                              event_data.disk_album),
        event_data, dry_run)

\* the body of a handler subscribed to the task's event
run_handler(w, handler, event_data, dry_run) ==
    CASE handler = "upload_folder" -> upload_folder(w, event_data, dry_run)
      [] handler = "download_folder" -> download_folder(w, event_data, dry_run)
      [] handler = "delete_folder_on_disk" -> delete_folder_on_disk(w, event_data, dry_run)
      [] handler = "delete_album_on_disk" -> delete_album_on_disk(w, event_data, dry_run)
      [] handler = "delete_folder_online" -> delete_folder_online(w, event_data, dry_run)
      [] handler = "delete_album_online" -> delete_album_online(w, event_data, dry_run)
      [] handler = "upload_album" -> upload_album(w, event_data, dry_run)
      [] handler = "download_album" -> download_album(w, event_data, dry_run)
      [] handler = "sync_albums" -> sync_albums(w, event_data, dry_run)

\* ----------------------------------------------------------------- sync.py
\* models.Image and Image.relative_path
Image(album_relative_path, filename) ==
    [album_relative_path |-> album_relative_path, filename |-> filename]
Image_relative_path(image) == joinpath(image.album_relative_path, image.filename)

\* image_tools.images_are_the_same
images_are_the_same_by_filename(image1, image2) == image1.filename = image2.filename
images_are_the_same(image1, image2) ==
    Image_relative_path(image1) = Image_relative_path(image2)

\* the result pair of compare_disk_and_online_albums
Compared(content_is_the_same, it_was_quick) ==
    [content_is_the_same |-> content_is_the_same, it_was_quick |-> it_was_quick]

\* compare_disk_and_online_albums, lines 295-303: both lists are loaded
compare_images(w, disk_album, online_album) ==
    IF w.raised THEN w
    ELSE LET da == w.on_disk.albums[disk_album]
             oa == w.on_line.albums[online_album]
             disk_images == sorted_images(da.images.list)
             online_images == sorted_images(oa.images.list)
             zipped == 1..Min(Len(disk_images), Len(online_images))
         IN IF \E i \in zipped :
                  ~images_are_the_same(Image(da.relative_path, disk_images[i]),
                                       Image(oa.relative_path, online_images[i]))
            THEN Return(w, Compared(FALSE, FALSE))
            ELSE Return(w, Compared(TRUE, FALSE))

\* sync.compare_disk_and_online_albums
compare_disk_and_online_albums_uncounted(w, disk_album, online_album, force_refresh) ==
    LET da == w.on_disk.albums[disk_album]
        oa == w.on_line.albums[online_album]
    IN IF albums_already_synced(w.disk, da, oa, force_refresh)
       THEN Return(w, Compared(TRUE, TRUE))
       ELSE IF da.relative_path # oa.relative_path
       THEN Return(w, Compared(FALSE, TRUE))
       ELSE compare_images(
                load_disk_if_required(load_online_if_required(w, online_album),
                                      disk_album),
                disk_album, online_album)
compare_disk_and_online_albums(w, disk_album, online_album, force_refresh) ==
    LET da == w.on_disk.albums[disk_album]
        oa == w.on_line.albums[online_album]
    IN IF albums_already_synced(w.disk, da, oa, force_refresh)
       THEN Return(w, Compared(TRUE, TRUE))
       ELSE IF da.relative_path # oa.relative_path
       THEN Return(w, Compared(FALSE, TRUE))
       ELSE IF da.image_count # oa.image_count
       THEN Return(w, Compared(FALSE, TRUE))
       ELSE compare_images(
                load_disk_if_required(load_online_if_required(w, online_album),
                                      disk_album),
                disk_album, online_album)

\* synchronize_albums, lines 231-234: whatever the comparison said, remember
\* the sync when there is no sync data yet or the comparison was not quick
synchronize_albums_remember_never(w, compared, disk_album, online_album) ==
    IF w.raised THEN w ELSE Return(w, compared)
synchronize_albums_remember(w, compared, disk_album, online_album) ==
    IF w.raised THEN w
    ELSE IF \/ w.on_disk.albums[disk_album].disk_info.sync_data = None
            \/ ~compared.it_was_quick
    THEN Returned(remember_sync(
                      w, disk_album,
                      w.on_line.albums[online_album].online_info.last_updated),
                  compared)
    ELSE Return(w, compared)

\* synchronize_albums, lines 217-225: fire ALBUM_SYNC
synchronize_albums_fire(w, disk_album, online_album, event_group, sync_action) ==
    IF w.raised THEN w
    ELSE fire(w, event_group.ALBUM_SYNC,
              SyncAlbumImagesEventData(disk_album, online_album, sync_action))

\* synchronize_albums, lines 204-234: the comparison is made
synchronize_albums_compared(w, disk_album, online_album, event_group, sync_action) ==
    IF w.raised THEN w
    ELSE synchronize_albums_remember(
             IF w.ret.content_is_the_same THEN w
             ELSE synchronize_albums_fire(
                      load_disk_if_required(load_online_if_required(w, online_album),
                                            disk_album),
                      disk_album, online_album, event_group, sync_action),
             w.ret, disk_album, online_album)

\* synchronize_albums, both albums present
synchronize_albums_both(w, disk_album, online_album, event_group, sync_action, force_refresh) ==
    synchronize_albums_compared(
        compare_disk_and_online_albums(w, disk_album, online_album, force_refresh),
        disk_album, online_album, event_group, sync_action)

\* sync.synchronize_albums
synchronize_albums(w, source_album, target_folder, event_group, sync_action, force_refresh) ==
    LET target_tree == IF event_group = OnlineEventGroup THEN w.on_line ELSE w.on_disk
        target_album == joinpath(target_folder, Name(source_album))
    IN IF target_album \notin DOMAIN target_tree.albums
       THEN Return(fire(w, event_group.ALBUM_ADD,
                        AlbumEventData(source_album, target_folder)),
                   None)
       ELSE IF event_group = OnlineEventGroup
       THEN synchronize_albums_both(w, source_album, target_album, event_group,
                                    sync_action, force_refresh)
       ELSE synchronize_albums_both(w, target_album, source_album, event_group,
                                    sync_action, force_refresh)

\* -------------------------------------------------------------------- Spec
\* One run of synchronize(on_disk, on_line, sync_action, connection, dry_run,
\* force_refresh) with the handlers it sets off.  The main coroutine is a
\* stack of frames: synchronize at the bottom, one synchronize_folders per
\* folder being walked above it.  A task runs only while the main coroutine
\* is suspended: in the gather of join ("gather") or in a request to the
\* service ("io").
Frame(pc, folder, has_target, target_parent, todo) ==
    [pc |-> pc, folder |-> folder, has_target |-> has_target,
     target_parent |-> target_parent, todo |-> todo]

Top == main.frames[Len(main.frames)]
SetTop(m, frame) == [m EXCEPT !.frames[Len(m.frames)] = frame]
Pop(m) == [m EXCEPT !.frames = SubSeq(@, 1, Len(@) - 1)]
Push(m, frame) == [m EXCEPT !.frames = Append(@, frame)]

event_group == event_group_of(cfg.sync)
source_tree == IF event_group = OnlineEventGroup THEN on_disk ELSE on_line
target_tree == IF event_group = OnlineEventGroup THEN on_line ELSE on_disk

MainSuspended == main.pc \in {"gather", "io"}

\* the variables a coroutine leaves as its world w
WorldBecomes(w) ==
    /\ on_disk' = w.on_disk
    /\ on_line' = w.on_line
    /\ disk' = w.disk
    /\ service' = w.service
    /\ effects' = w.effects

\* synchronize, lines 27-47: the direction, the call on the two roots
synchronize ==
    /\ MainWalking
    /\ Top.pc = "start"
    /\ main' = IF event_group # None
               THEN Push(SetTop(main, [Top EXCEPT !.pc = "final_join"]),
                         Frame("join", <<>>, TRUE, <<>>, <<>>))
               ELSE SetTop(main, [Top EXCEPT !.pc = "final_join"])
    /\ UNCHANGED <<the_events_tracker, async_tasks, concurrency_limiter, call, worldVars>>

\* synchronize_folders, line 74: await event_manager.join()
synchronize_folders_join ==
    /\ MainWalking
    /\ Top.pc = "join"
    /\ LET r == join_call(SetTop(main, [Top EXCEPT !.pc = "enter"]), the_events_tracker)
       IN /\ main' = r.main
          /\ the_events_tracker' = r.trk
    /\ UNCHANGED <<async_tasks, concurrency_limiter, call, worldVars>>

\* synchronize_folders, lines 79-91: the target folder is missing
synchronize_folders_add_descends ==
    /\ MainWalking
    /\ Top.pc = "enter"
    /\ ~Top.has_target
    /\ LET r == fire_event(EM, event_group.FOLDER_ADD,
                           FolderEventData(Top.folder, Top.target_parent))
       IN /\ the_events_tracker' = r.trk
          /\ async_tasks' = r.at
    /\ main' = SetTop(main, [Top EXCEPT !.has_target = TRUE])
    /\ UNCHANGED <<concurrency_limiter, call, worldVars>>
synchronize_folders_add ==
    /\ MainWalking
    /\ Top.pc = "enter"
    /\ ~Top.has_target
    /\ LET r == fire_event(EM, event_group.FOLDER_ADD,
                           FolderEventData(Top.folder, Top.target_parent))
       IN /\ the_events_tracker' = r.trk
          /\ async_tasks' = r.at
    /\ main' = Pop([main EXCEPT !.pc = "walk"])
    /\ UNCHANGED <<concurrency_limiter, call, worldVars>>

\* synchronize_folders, lines 93-98: both folders exist
synchronize_folders_both ==
    /\ MainWalking
    /\ Top.pc = "enter"
    /\ Top.has_target
    /\ main' = SetTop([main EXCEPT !.pc = "walk"],
                      [Top EXCEPT !.pc = "albums",
                                  !.todo = sorted(albums(source_tree, Top.folder))])
    /\ UNCHANGED <<the_events_tracker, async_tasks, concurrency_limiter, call, worldVars>>

\* synchronize_folders, lines 99-113: one turn of the loop over the albums
album_turn ==
    LET source_album == joinpath(Top.folder, Head(Top.todo))
    IN IF source_tree.albums[source_album].image_count > 0
       THEN synchronize_albums(World("walk"), source_album, Top.folder, event_group,
                               cfg.sync, cfg.force_refresh)
       ELSE Return(World("walk"), None)

Awaits(w) == w.awaited

\* the turn reaches a request to the service: the main coroutine is suspended
synchronize_folders_album_awaits ==
    /\ MainWalking
    /\ Top.pc = "albums"
    /\ Top.todo # <<>>
    /\ Awaits(album_turn)
    /\ main' = [main EXCEPT !.pc = "io"]
    /\ UNCHANGED <<the_events_tracker, async_tasks, concurrency_limiter, call, worldVars>>

\* the turn is made: the world it leaves, the next album
AlbumTurnMade(w, source_album) ==
    /\ WorldBecomes(w)
    /\ the_events_tracker' = w.em.trk
    /\ async_tasks' = w.em.at
    /\ main' = SetTop([main EXCEPT !.pc = IF w.raised THEN "raised" ELSE "walk"],
                      [Top EXCEPT !.todo = Tail(@)])
    /\ call' = IF source_tree.albums[source_album].image_count = 0
               THEN call
               ELSE IF w.raised \/ w.ret = None
               THEN [kind |-> "synchronize_albums", source_album |-> source_album,
                     compared |-> FALSE, content_is_the_same |-> FALSE,
                     it_was_quick |-> FALSE]
               ELSE [kind |-> "synchronize_albums", source_album |-> source_album,
                     compared |-> TRUE,
                     content_is_the_same |-> w.ret.content_is_the_same,
                     it_was_quick |-> w.ret.it_was_quick]

synchronize_folders_album ==
    /\ Top.pc = "albums"
    /\ Top.todo # <<>>
    /\ \/ main.pc = "io"
       \/ MainWalking /\ ~Awaits(album_turn)
    /\ AlbumTurnMade(album_turn, joinpath(Top.folder, Head(Top.todo)))
    /\ UNCHANGED <<concurrency_limiter, cfg, clock>>

\* synchronize_folders, lines 116: the albums are done, the sub-folders next
synchronize_folders_albums_done ==
    /\ MainWalking
    /\ Top.pc = "albums"
    /\ Top.todo = <<>>
    /\ main' = SetTop(main, [Top EXCEPT !.pc = "sub_folders",
                                        !.todo = sorted(sub_folders(source_tree, Top.folder))])
    /\ UNCHANGED <<the_events_tracker, async_tasks, concurrency_limiter, call, worldVars>>

\* synchronize_folders, lines 117-130: the call on the next sub-folder
synchronize_folders_recurse ==
    /\ MainWalking
    /\ Top.pc = "sub_folders"
    /\ Top.todo # <<>>
    /\ LET source_sub_folder == joinpath(Top.folder, Head(Top.todo))
       IN main' = Push(SetTop(main, [Top EXCEPT !.todo = Tail(@)]),
                       Frame("join", source_sub_folder,
                             source_sub_folder \in DOMAIN target_tree.folders,
                             Top.folder, <<>>))
    /\ UNCHANGED <<the_events_tracker, async_tasks, concurrency_limiter, call, worldVars>>

\* handle_delete for each child of target_folder whose name source_folder lacks
deletions_of_every_child(em, folder) ==
    LET folder_names == sorted(sub_folders(target_tree, folder))
        album_names == sorted(albums(target_tree, folder))
        w1 == fire_each([em |-> em], event_group.FOLDER_DELETE,
                        [i \in DOMAIN folder_names |->
                            DeleteEventData(joinpath(folder, folder_names[i]), folder)])
        w2 == fire_each(w1, event_group.ALBUM_DELETE,
                        [i \in DOMAIN album_names |->
                            DeleteEventData(joinpath(folder, album_names[i]), folder)])
    IN w2.em
deletions(em, folder) ==
    LET folder_names == sorted(sub_folders(target_tree, folder)
                                  \ sub_folders(source_tree, folder))
        album_names == sorted(albums(target_tree, folder) \ albums(source_tree, folder))
        w1 == fire_each([em |-> em], event_group.FOLDER_DELETE,
                        [i \in DOMAIN folder_names |->
                            DeleteEventData(joinpath(folder, folder_names[i]), folder)])
        w2 == fire_each(w1, event_group.ALBUM_DELETE,
                        [i \in DOMAIN album_names |->
                            DeleteEventData(joinpath(folder, album_names[i]), folder)])
    IN w2.em

\* synchronize_folders, lines 132-159: the delete phase, and the return
synchronize_folders_deletes ==
    /\ MainWalking
    /\ Top.pc = "sub_folders"
    /\ Top.todo = <<>>
    /\ LET r == IF delete_permitted(event_group, cfg.sync)
                THEN deletions(EM, Top.folder) ELSE EM
       IN /\ the_events_tracker' = r.trk
          /\ async_tasks' = r.at
    /\ main' = Pop([main EXCEPT !.pc = "walk"])
    /\ UNCHANGED <<concurrency_limiter, call, worldVars>>

\* synchronize, line 50: the last join
synchronize_join ==
    /\ MainWalking
    /\ Top.pc = "final_join"
    /\ LET r == join_call(SetTop(main, [Top EXCEPT !.pc = "complete"]), the_events_tracker)
       IN /\ main' = r.main
          /\ the_events_tracker' = r.trk
    /\ UNCHANGED <<async_tasks, concurrency_limiter, call, worldVars>>

Complete == Top.pc = "complete" /\ main.pc = "join_returned"

\* a task enters handle_event
HandlerStarts(t) ==
    /\ MainSuspended
    /\ handle_event_start(t)

\* the handler of task t, from its call to its return or its exception
handler_turn(t, transport) ==
    run_handler(Over(World("handler"), transport),
                event_handlers[async_tasks[t].event][async_tasks[t].handled + 1],
                async_tasks[t].event_data, cfg.dry_run)

HandlerReturned(w, t, r) ==
    /\ ~w.raised
    /\ WorldBecomes(w)
    /\ the_events_tracker' = r.trk
    /\ async_tasks' = r.at
    /\ concurrency_limiter' =
          IF r.at[t].state = "done" THEN concurrency_limiter + 1
          ELSE concurrency_limiter

HandlerReturns(t) ==
    /\ MainSuspended
    /\ async_tasks[t].state = "running"
    /\ \E transport \in Transports :
          HandlerReturned(handler_turn(t, transport), t,
                          handle_event_handler_returned(handler_turn(t, transport).em, t))
    /\ UNCHANGED <<main, call, cfg, clock>>

HandlerRaised(w, t, r) ==
    /\ w.raised
    /\ WorldBecomes(w)
    /\ the_events_tracker' = r.trk
    /\ async_tasks' = r.at
    /\ concurrency_limiter' = concurrency_limiter + 1

HandlerRaises(t) ==
    /\ MainSuspended
    /\ async_tasks[t].state = "running"
    /\ \E transport \in Transports :
          HandlerRaised(handler_turn(t, transport), t,
                        handle_event_handler_raised(handler_turn(t, transport).em, t))
    /\ UNCHANGED <<main, call, cfg, clock>>

\* The run starts at Now, well after the earlier run at LastSync.
Now == LastSync + 3 * DELTA

Images == {Img(i) : i \in 1..MaxImages}

RootDirectory == Directory(LastSync, {}, None)

\* Account and disk hold, under the root, either one album "A" (on either
\* side or both: any images, a sync file or none, either side changed or not
\* since LastSync) or a part of the subtree F{B, G{C}} (B and C albums of one
\* image, F and G folders).
AlbumFS ==
    {(<<>> :> RootDirectory)} \cup
    {(<<>> :> RootDirectory) @@ (<<"A">> :> Directory(mtime, images, sync_file)) :
        mtime \in {LastSync, LastSync + DELTA + 1},
        images \in SUBSET Images \ {{}},
        sync_file \in {None, SyncData(LastSync, LastSync, LastSync)}}

AlbumService ==
    {[folders |-> {<<>>}, albums |-> <<>>]} \cup
    {[folders |-> {<<>>},
      albums |-> (<<"A">> :> [images |-> images, processing |-> {},
                              last_updated |-> last_updated])] :
        images \in SUBSET Images,
        last_updated \in {LastSync, LastSync + DELTA + 1}}

FolderPaths == {<<"F">>, <<"F", "G">>}
AlbumPaths == {<<"F", "B">>, <<"F", "G", "C">>}
Shapes ==
    {S \in SUBSET (FolderPaths \cup AlbumPaths) :
        \A p \in S : Len(p) > 1 => Parent(p) \in S}

ShapeFS(S) ==
    (<<>> :> RootDirectory) @@
    [p \in S |-> Directory(LastSync, IF p \in AlbumPaths THEN {Img(1)} ELSE {}, None)]

ShapeService(S) ==
    [folders |-> {<<>>} \cup (S \cap FolderPaths),
     albums |-> [p \in S \cap AlbumPaths |->
                    [images |-> {Img(1)}, processing |-> {}, last_updated |-> LastSync]]]

\* One side holds F{G{G}}: the album G (one image) in the sub-folder G of F; the
\* other side holds nothing.
NestedPaths == {<<"F">>, <<"F", "G">>, <<"F", "G", "G">>}

NestedFS ==
    (<<>> :> RootDirectory) @@
    [p \in NestedPaths |-> Directory(LastSync, IF Len(p) = 3 THEN {Img(1)} ELSE {}, None)]

NestedService ==
    [folders |-> {<<>>} \cup {p \in NestedPaths : Len(p) < 3},
     albums |-> [p \in {p \in NestedPaths : Len(p) = 3} |->
                    [images |-> {Img(1)}, processing |-> {}, last_updated |-> LastSync]]]

\* run_sync: the configuration (a preset, dry_run, force_refresh), the two
\* scans, the call of synchronize
MainStart == [MainInit EXCEPT !.frames = <<Frame("start", <<>>, TRUE, <<>>, <<>>)>>]

Init ==
    /\ the_events_tracker = EventsTracker
    /\ async_tasks = <<>>
    /\ concurrency_limiter = ConcurrencyLimit
    /\ main = MainStart
    /\ call = NoCall
    /\ effects = {}
    /\ clock = Now
    /\ cfg \in {[sync |-> SyncActionPresets[preset], dry_run |-> dry_run,
                 force_refresh |-> force_refresh] :
                    preset \in DOMAIN SyncActionPresets,
                    dry_run \in BOOLEAN, force_refresh \in BOOLEAN}
    /\ \/ disk \in AlbumFS /\ service \in AlbumService
       \/ \E S \in Shapes, T \in Shapes :
             disk = ShapeFS(S) /\ service = ShapeService(T)
       \/ disk = NestedFS /\ service = ShapeService({})
       \/ disk = ShapeFS({}) /\ service = NestedService
    /\ on_disk = disk_scanner_scan(disk)
    /\ on_line = online_scanner_scan(service)

\* The process has ended, by the return of run_sync or by the exception join
\* raised, and is started again with the same configuration, one second later:
\* a new dispatcher, the two scans of what the disk and the service hold now.
\* The way the earlier run ended stays in the log.
run_number == clock - Now + 1

run_sync_again ==
    /\ run_number < MaxRuns
    /\ Complete \/ main.pc = "raised"
    /\ clock' = clock + 1
    /\ effects' = effects \cup {[op |-> IF Complete THEN "completed" ELSE "failed",
                                 target |-> <<>>, by |-> "run_sync"]}
    /\ the_events_tracker' = EventsTracker
    /\ async_tasks' = <<>>
    /\ concurrency_limiter' = ConcurrencyLimit
    /\ main' = MainStart
    /\ call' = NoCall
    /\ on_disk' = disk_scanner_scan(disk)
    /\ on_line' = online_scanner_scan(service)
    /\ UNCHANGED <<cfg, disk, service>>

Next ==
    \/ run_sync_again
    \/ synchronize
    \/ synchronize_folders_join
    \/ synchronize_folders_add
    \/ synchronize_folders_both
    \/ synchronize_folders_album_awaits
    \/ synchronize_folders_album
    \/ synchronize_folders_albums_done
    \/ synchronize_folders_recurse
    \/ synchronize_folders_deletes
    \/ synchronize_join
    \/ join_gather_returns
    \/ join_gather_raises
    \/ \E t \in TaskIds : HandlerStarts(t)
    \/ \E t \in TaskIds : HandlerReturns(t)
    \/ \E t \in TaskIds : HandlerRaises(t)

Spec == Init /\ [][Next]_vars

\* SpecSiblings: the same run over trees whose root has up to two albums (A, B)
\* and up to two sub-folders (F, G, each with its album C); B may be empty on
\* the service; each of them is on one side at least.  No forced refresh.
SiblingShapes ==
    {S \in SUBSET {<<"A">>, <<"B">>, <<"F">>, <<"G">>, <<"F", "C">>, <<"G", "C">>} :
        /\ <<"F">> \in S <=> <<"F", "C">> \in S
        /\ <<"G">> \in S <=> <<"G", "C">> \in S}

SiblingFS(S) ==
    (<<>> :> RootDirectory) @@
    [p \in S |-> Directory(LastSync, IF Name(p) \in {"F", "G"} THEN {} ELSE {Img(1)}, None)]

SiblingService(S, images_of_B) ==
    [folders |-> {<<>>} \cup {p \in S : Name(p) \in {"F", "G"}},
     albums |-> [p \in {p \in S : Name(p) \notin {"F", "G"}} |->
                    [images |-> IF p = <<"B">> THEN images_of_B ELSE {Img(1)},
                     processing |-> {}, last_updated |-> LastSync]]]

InitSiblings ==
    /\ the_events_tracker = EventsTracker
    /\ async_tasks = <<>>
    /\ concurrency_limiter = ConcurrencyLimit
    /\ main = MainStart
    /\ call = NoCall
    /\ effects = {}
    /\ clock = Now
    /\ cfg \in {[sync |-> SyncActionPresets[preset], dry_run |-> dry_run,
                 force_refresh |-> FALSE] :
                    preset \in DOMAIN SyncActionPresets, dry_run \in BOOLEAN}
    /\ \E S \in SiblingShapes, T \in SiblingShapes, images_of_B \in {{}, {Img(1)}} :
          /\ S \cup T = UNION SiblingShapes
          /\ disk = SiblingFS(S) /\ service = SiblingService(T, images_of_B)
    /\ on_disk = disk_scanner_scan(disk)
    /\ on_line = online_scanner_scan(service)

SpecSiblings == InitSiblings /\ [][Next]_vars

\* SpecProcessing: the whole program again, on an account where the album A
\* holds images that SmugMug is still processing (the record of each has
\* Processing set and counts in the album's ImageCount), or on the subtree
\* F{B, G{C}} present on one side and in part on the other.
ProcessingService ==
    {[folders |-> {<<>>},
      albums |-> (<<"A">> :> [images |-> images, processing |-> processing,
                              last_updated |-> last_updated])] :
        images \in SUBSET Images \ {{}},
        processing \in SUBSET Images \ {{}},
        last_updated \in {LastSync, LastSync + DELTA + 1}}

InitProcessing ==
    /\ the_events_tracker = EventsTracker
    /\ async_tasks = <<>>
    /\ concurrency_limiter = ConcurrencyLimit
    /\ main = MainStart
    /\ call = NoCall
    /\ effects = {}
    /\ clock = Now
    /\ cfg \in {[sync |-> SyncActionPresets[preset], dry_run |-> dry_run,
                 force_refresh |-> FALSE] :
                    preset \in DOMAIN SyncActionPresets, dry_run \in BOOLEAN}
    /\ \/ /\ disk \in AlbumFS
          /\ service \in ProcessingService
          /\ service.albums[<<"A">>].processing \subseteq service.albums[<<"A">>].images
       \/ \E S \in Shapes, T \in Shapes :
             /\ S \cup T = FolderPaths \cup AlbumPaths
             /\ disk = ShapeFS(S) /\ service = ShapeService(T)
    /\ on_disk = disk_scanner_scan(disk)
    /\ on_line = online_scanner_scan(service)

SpecProcessing == InitProcessing /\ [][Next]_vars

\* ------------------------------------------------------ online/smugmug.py
\* The exception classes a request can end with, each with its base classes
\* (isinstance looks through them).
ExceptionClasses ==
    [httpx_HTTPError |-> {"httpx.HTTPError"},
     httpx_TransportError |-> {"httpx.TransportError", "httpx.RequestError",
                               "httpx.HTTPError"},
     requests_HTTPError |-> {"requests.HTTPError", "requests.RequestException"},
     requests_ConnectionError |-> {"requests.ConnectionError",
                                   "requests.RequestException"}]

isinstance(exception, classes) == ExceptionClasses[exception] \cap classes # {}

\* aioretry.RetryInfo and the strategy a policy answers: (abandon, delay)
RetryInfo(fails, exception) == [fails |-> fails, exception |-> exception]
RetryPolicyStrategy(abandon, delay) == [abandon |-> abandon, delay |-> delay]

\* smugmug.retry_policy
retry_policy(info) ==
    IF /\ isinstance(info.exception, {"httpx.TransportError", "requests.HTTPError"})
       /\ info.fails < 3
    THEN RetryPolicyStrategy(FALSE, info.fails * 1)
    ELSE RetryPolicyStrategy(TRUE, 0)

\* What the upload endpoint can answer to one POST: the connection is lost
\* before an answer, an HTTP error status, a 200 whose body says stat "fail",
\* a 200 whose body says ok.
Responses == {"connection_lost", "status_4xx", "status_5xx", "stat_fail", "ok"}

\* SmugmugCoreConnection.request_upload, one call of the body: the exception it
\* ends with, None when it returns.  The POST goes through the requests
\* session: a lost connection is a requests.ConnectionError, raise_for_status
\* raises requests.HTTPError, stat "fail" is raised as httpx.HTTPError.
request_upload(response, dry_run) ==
    IF dry_run THEN None
    ELSE CASE response = "connection_lost" -> [class |-> "requests_ConnectionError"]
           [] response \in {"status_4xx", "status_5xx"} -> [class |-> "requests_HTTPError"]
           [] response = "stat_fail" -> [class |-> "httpx_HTTPError"]
           [] OTHER -> None

\* SpecRetry: one call of the decorated request_upload.  aioretry calls the
\* body; when it raises, fails is incremented (1 at the first failure) and the
\* policy is asked: abandon re-raises the exception, otherwise the wrapper
\* sleeps `delay` seconds and calls the body again.
InitRetry ==
    /\ InitDispatcher
    /\ NoWorld
    /\ \E dry_run \in BOOLEAN, album_uri \in {<<"A">>, <<"F", "B">>},
          image_name \in {Img(i) : i \in 1..MaxImages} :
          call = [kind |-> "request_upload", dry_run |-> dry_run,
                  album_uri |-> album_uri, image_name |-> image_name,
                  pc |-> "call", fails |-> 0, exception |-> None,
                  responses |-> <<>>, slept |-> <<>>]

RetryBodyReturns ==
    /\ call.kind = "request_upload"
    /\ call.pc = "call"
    /\ \E response \in Responses :
          /\ request_upload(response, call.dry_run) = None
          /\ call' = [call EXCEPT !.pc = "returned",
                                  !.responses = IF call.dry_run THEN @
                                                ELSE Append(@, response)]
    /\ UNCHANGED <<the_events_tracker, async_tasks, concurrency_limiter, main, worldVars>>

RetryBodyRaises ==
    /\ call.kind = "request_upload"
    /\ call.pc = "call"
    /\ \E response \in Responses :
          /\ request_upload(response, call.dry_run) # None
          /\ call' = [call EXCEPT !.pc = "except",
                                  !.fails = @ + 1,
                                  !.exception = request_upload(response, call.dry_run),
                                  !.responses = Append(@, response)]
    /\ UNCHANGED <<the_events_tracker, async_tasks, concurrency_limiter, main, worldVars>>

RetryAbandons ==
    /\ call.kind = "request_upload"
    /\ call.pc = "except"
    /\ retry_policy(RetryInfo(call.fails, call.exception.class)).abandon
    /\ call' = [call EXCEPT !.pc = "raised"]
    /\ UNCHANGED <<the_events_tracker, async_tasks, concurrency_limiter, main, worldVars>>

RetrySleeps ==
    /\ call.kind = "request_upload"
    /\ call.pc = "except"
    /\ ~retry_policy(RetryInfo(call.fails, call.exception.class)).abandon
    /\ call' = [call EXCEPT
                  !.pc = "call",
                  !.slept = Append(@, retry_policy(RetryInfo(call.fails,
                                                             call.exception.class)).delay)]
    /\ UNCHANGED <<the_events_tracker, async_tasks, concurrency_limiter, main, worldVars>>

NextRetry == RetryBodyReturns \/ RetryBodyRaises \/ RetryAbandons \/ RetrySleeps

SpecRetry == InitRetry /\ [][NextRetry]_vars

\* -------------------------------------------------- utils/image_tools.py
\* A file name as PurePath and str see it: a sequence of characters.
ascii_lowercase ==
    <<"a", "b", "c", "d", "e", "f", "g", "h", "i", "j", "k", "l", "m",
      "n", "o", "p", "q", "r", "s", "t", "u", "v", "w", "x", "y", "z">>
ascii_uppercase ==
    <<"A", "B", "C", "D", "E", "F", "G", "H", "I", "J", "K", "L", "M",
      "N", "O", "P", "Q", "R", "S", "T", "U", "V", "W", "X", "Y", "Z">>

\* str.lower / str.upper
lower(str) ==
    [i \in DOMAIN str |->
        IF \E k \in DOMAIN ascii_uppercase : ascii_uppercase[k] = str[i]
        THEN ascii_lowercase[CHOOSE k \in DOMAIN ascii_uppercase :
                                ascii_uppercase[k] = str[i]]
        ELSE str[i]]
upper(str) ==
    [i \in DOMAIN str |->
        IF \E k \in DOMAIN ascii_lowercase : ascii_lowercase[k] = str[i]
        THEN ascii_uppercase[CHOOSE k \in DOMAIN ascii_lowercase :
                                ascii_lowercase[k] = str[i]]
        ELSE str[i]]

\* str.rfind("."), 0 when there is none
rfind_dot(name) ==
    IF \E i \in DOMAIN name : name[i] = "."
    THEN CHOOSE i \in DOMAIN name :
            name[i] = "." /\ \A j \in DOMAIN name : j > i => name[j] # "."
    ELSE 0

\* PurePath.suffix: from the last dot of the name, when that dot is neither
\* its first nor its last character
PurePath_suffix(name) ==
    IF 1 < rfind_dot(name) /\ rfind_dot(name) < Len(name)
    THEN SubSeq(name, rfind_dot(name), Len(name))
    ELSE <<>>

\* models.supported_image_types, its keys
supported_image_types ==
    {<<".", "j", "p", "g">>, <<".", "j", "p", "e", "g">>,
     <<".", "h", "e", "i", "c">>, <<".", "m", "p", "4">>,
     <<".", "a", "v", "i">>, <<".", "m", "v", "4">>,
     <<".", "m", "o", "v">>, <<".", "m", "t", "s">>}

\* image_tools.is_image
is_image(filename) == lower(PurePath_suffix(filename)) \in supported_image_types

\* models.Image with its disk_info and online_info
ImageWith(image, disk_info, online_info) ==
    image @@ [disk_info |-> disk_info, online_info |-> online_info]

\* SpecImageTools: one call of is_image or of images_are_the_same.  The file
\* names have a stem (none for a name that starts with its dot) and an ending
\* in lower case, in upper case or capitalised; the images are in one of three
\* albums, on disk, online, both or neither.
Stems == {<<>>, <<"a">>, <<"a", ".", "b">>}
Endings ==
    supported_image_types \cup
    {<<".", "m", "4", "v">>, <<".", "t", "x", "t">>, <<".", "p", "d", "f">>,
     <<".">>, <<>>, <<"j", "p", "g">>}
Spellings(str) == {str, upper(str), [i \in DOMAIN str |-> IF i = 2 THEN upper(str)[i] ELSE str[i]]}
FileNames == {stem \o e : stem \in Stems, e \in UNION {Spellings(x) : x \in Endings}}

SomeImages ==
    {ImageWith(Image(album_relative_path, filename), disk_info, online_info) :
        album_relative_path \in {<<"A">>, <<"F", "B">>, <<"F", "G", "C">>},
        filename \in {Img(1), Img(2)},
        disk_info \in {None, [image_disk_path |-> "on disk"]},
        online_info \in {None, [uri |-> "online"]}}

InitImageTools ==
    /\ InitDispatcher
    /\ NoWorld
    /\ \/ \E filename \in FileNames :
             call = [kind |-> "is_image", filename |-> filename,
                     returned |-> FALSE, ret |-> FALSE]
       \/ \E image1 \in SomeImages, image2 \in SomeImages :
             call = [kind |-> "images_are_the_same", image1 |-> image1,
                     image2 |-> image2, returned |-> FALSE, ret |-> FALSE]

IsImageReturns ==
    /\ call.kind = "is_image"
    /\ ~call.returned
    /\ call' = [call EXCEPT !.returned = TRUE, !.ret = is_image(call.filename)]
    /\ UNCHANGED <<the_events_tracker, async_tasks, concurrency_limiter, main, worldVars>>

ImagesAreTheSameReturns ==
    /\ call.kind = "images_are_the_same"
    /\ ~call.returned
    /\ call' = [call EXCEPT !.returned = TRUE,
                            !.ret = images_are_the_same(call.image1, call.image2)]
    /\ UNCHANGED <<the_events_tracker, async_tasks, concurrency_limiter, main, worldVars>>

NextImageTools == IsImageReturns \/ ImagesAreTheSameReturns

SpecImageTools == InitImageTools /\ [][NextImageTools]_vars

\* ------------------------------------------- event_manager.py: subscribe
\* SpecSubscribe: the decorator is applied up to MaxSubscribes times to the
\* functions f and g, with one tag, the same tag twice or two tags; then one
\* event is fired and handle_event calls its handlers.

\* `wrapped`, the function one application of the decorator defines: a new
\* function object each time (a function is equal to itself only), the n-th
\* made, which delegates to event_handler
wrapped(n, event_handler) == [id |-> n, event_handler |-> event_handler]

\* subscribe(*event_tags)(event_handler), lines 84-86: the_events_tracker
\* .event_handlers[event_tag].add(wrapped) for each tag
subscribe(registry, event_tags, a_wrapped) ==
    [e \in DOMAIN registry |->
        IF e \in Range(event_tags) THEN registry[e] \cup {a_wrapped}
        ELSE registry[e]]

\* the orders in which `for handler in handlers` can list a set: a set has no
\* order of its own, the hashes of the function objects decide
IterationOrders(handlers) ==
    {order \in [1..Cardinality(handlers) -> handlers] :
        \A i, j \in 1..Cardinality(handlers) : i # j => order[i] # order[j]}

InitSubscribe ==
    /\ InitDispatcher
    /\ NoWorld
    /\ call = [kind |-> "subscribe", pc |-> "import",
               event_handlers |-> [e \in {"sync_album", "upload_album"} |-> {}],
               applied |-> <<>>, event |-> None, todo |-> <<>>, calls |-> <<>>]

\* one application of the decorator, while handlers.py is imported
Subscribes ==
    /\ call.kind = "subscribe"
    /\ call.pc = "import"
    /\ Len(call.applied) < MaxSubscribes
    /\ \E event_handler \in {"f", "g"},
          event_tags \in {<<"sync_album">>, <<"sync_album", "sync_album">>,
                          <<"sync_album", "upload_album">>} :
          LET a_wrapped == wrapped(Len(call.applied) + 1, event_handler)
          IN call' = [call EXCEPT
                        !.event_handlers = subscribe(@, event_tags, a_wrapped),
                        !.applied = Append(@, [event_tags |-> event_tags,
                                               wrapped |-> a_wrapped])]
    /\ UNCHANGED <<the_events_tracker, async_tasks, concurrency_limiter, main, worldVars>>

\* handle_event, lines 61-62: the handlers of the event, to be listed
HandleEventStarts ==
    /\ call.kind = "subscribe"
    /\ call.pc = "import"
    /\ \E event \in DOMAIN call.event_handlers :
       \E order \in IterationOrders(call.event_handlers[event]) :
          call' = [call EXCEPT !.pc = "for", !.event = event, !.todo = order]
    /\ UNCHANGED <<the_events_tracker, async_tasks, concurrency_limiter, main, worldVars>>

\* handle_event, lines 65-66: `await handler(event_data, dry_run)`, the call
HandlerCalled ==
    /\ call.kind = "subscribe"
    /\ call.pc = "for"
    /\ call.todo # <<>>
    /\ call' = [call EXCEPT !.pc = "await",
                            !.calls = Append(@, [op |-> "call", handler |-> Head(call.todo)])]
    /\ UNCHANGED <<the_events_tracker, async_tasks, concurrency_limiter, main, worldVars>>

\* ... and its return: the loop goes on
HandlerAwaited ==
    /\ call.kind = "subscribe"
    /\ call.pc = "await"
    /\ call' = [call EXCEPT !.pc = "for",
                            !.todo = Tail(@),
                            !.calls = Append(@, [op |-> "return", handler |-> Head(call.todo)])]
    /\ UNCHANGED <<the_events_tracker, async_tasks, concurrency_limiter, main, worldVars>>

\* handle_event, line 68: every handler has been awaited
HandleEventEnds ==
    /\ call.kind = "subscribe"
    /\ call.pc = "for"
    /\ call.todo = <<>>
    /\ call' = [call EXCEPT !.pc = "processed"]
    /\ UNCHANGED <<the_events_tracker, async_tasks, concurrency_limiter, main, worldVars>>

NextSubscribe ==
    \/ Subscribes
    \/ HandleEventStarts
    \/ HandlerCalled
    \/ HandlerAwaited
    \/ HandleEventEnds

SpecSubscribe == InitSubscribe /\ [][NextSubscribe]_vars

\* ------------------------------------------------- claims on the dispatcher
Handled(t) ==
    /\ async_tasks[t].state = "done"
    /\ async_tasks[t].handled = Len(event_handlers[async_tasks[t].event])

\* C1: when join() returns without raising, every event fired before or
\* during that join (by the publisher or by a handler, to any depth) has had all
\* its subscribed handlers run to completion, and the pending-task queue is
\* empty.
C1_JoinDrainsTransitively ==
    main.pc = "join_returned" =>
        /\ the_events_tracker.tasks = <<>>
        /\ \A t \in TaskIds : Handled(t)

\* a join that went round its loop at least twice (the later slices hold events
\* fired by handlers while join was waiting) has returned
C1_Witness ==
    /\ main.pc = "join_returned"
    /\ main.rounds >= 2
    /\ Len(async_tasks) >= 3

\* C2: after join() returns, total_processed equals total_submitted.
C2_ProcessedEqualsSubmitted ==
    main.pc = "join_returned" =>
        the_events_tracker.total_processed = the_events_tracker.total_submitted

C2_Witness ==
    /\ main.pc = "join_returned"
    /\ the_events_tracker.total_submitted = MaxEvents
    /\ main.rounds >= 2

\* C3: in every reachable state at most 10 events are executing their
\* handlers; with 10 executing, a further event starts only after one of them
\* has finished.
C3_AtMostTenExecuting == Cardinality(TasksIn("running")) <= 10

\* more than ten events were fired, ten of them execute, and the last of
\* these could start only because an earlier one had finished
C3_Witness ==
    /\ Len(async_tasks) > 10
    /\ Cardinality(TasksIn("running")) = 10
    /\ TasksIn("done") # {}

\* C4: a handler's exception is raised to the caller of the join() that awaits
\* the event's task: that join never returns normally, the run ends failed, and
\* the step that raises leaves every task as it is (no task is cancelled).
C4_States ==
    /\ main.pc = "join_returned" => TasksIn("failed") = {}
    /\ main.pc = "raised" =>
          \E t \in Range(main.a_slice) : async_tasks[t].state = "failed"
    /\ TasksIn("cancelled") = {}

C4_Steps ==
    /\ (main.pc = "gather" /\ \E t \in Range(main.a_slice) : async_tasks[t].state = "failed")
          => main'.pc \in {"gather", "raised"}
    /\ (main.pc # "raised" /\ main'.pc = "raised") => async_tasks' = async_tasks

C4_HandlerFailureSurfacesAtJoin == []C4_States /\ [][C4_Steps]_vars

\* join has raised the failure of one event while another event's handler is
\* still running
C4_Witness ==
    /\ main.pc = "raised"
    /\ TasksIn("failed") # {}
    /\ TasksIn("running") # {}

\* ------------------------------------------- claims on the sync-state cache
\* C9: albums_already_synced returns true if and only if force is false, a sync
\* triplet is present, |triplet.online_time - online.last_updated| <= 360 and
\* |triplet.disk_time - mtime(album_dir)| <= 360 (360 s counts as synced, 361 s
\* as not synced, in each of the two comparisons).
C9_AlreadySyncedIff ==
    (call.kind = "albums_already_synced" /\ call.returned) =>
        LET sync_data == call.disk_album.disk_info.sync_data
        IN call.ret <=>
            /\ ~call.force_refresh
            /\ sync_data # None
            /\ Abs(sync_data.online_time - call.online_album.online_info.last_updated) <= 360
            /\ Abs(sync_data.disk_time - disk[<<"A">>].mtime) <= 360

\* ------------------------------------------------------- claims on the run
\* a step of the walk that makes one turn of the loop over the albums
AlbumTurnStep ==
    /\ Top.pc = "albums"
    /\ Top.todo # <<>>
    /\ Len(main'.frames) = Len(main.frames)
    /\ main'.frames[Len(main.frames)].todo = Tail(Top.todo)

TurnAlbum == joinpath(Top.folder, Head(Top.todo))

DeleteTags(group) == {group.FOLDER_DELETE, group.ALBUM_DELETE}

MutatingRequests == {"create_folder", "create_album", "upload", "delete"}

\* C5: with dry_run = true a complete run (the walk and every handler it
\* triggers) creates or removes no local file or directory and writes no sync
\* triplet: no step of the run changes the file system.
C5_DryRunLeavesDiskUntouched == [][cfg.dry_run => disk' = disk]_vars

\* C6: with dry_run = true no handler of any event kind issues a
\* create-folder, create-album, image-upload or delete request to the
\* service: no step changes what the service holds or adds such a request.
C6_DryRunIssuesNoMutatingRequest ==
    [][cfg.dry_run =>
          /\ service' = service
          /\ \A e \in effects' \ effects : e.op \notin MutatingRequests]_vars

C6_Witness ==
    /\ cfg.dry_run
    /\ cfg.sync.upload
    /\ \E t \in TaskIds :
          /\ async_tasks[t].event = OnlineEventGroup.ALBUM_SYNC
          /\ async_tasks[t].state = "done"
          /\ \E f \in disk[async_tasks[t].event_data.disk_album].images :
                f \notin service.albums[async_tasks[t].event_data.online_album].images

\* C7: the walk fires FOLDER_DELETE or ALBUM_DELETE only when the policy
\* permits deletion on the target side (delete_online for upload,
\* delete_on_disk for download); with that flag false no delete event exists.
C7_DeletesOnlyWhenPermitted ==
    \A t \in TaskIds :
        /\ async_tasks[t].event \in DeleteTags(OnlineEventGroup)
              => cfg.sync.upload /\ cfg.sync.delete_online
        /\ async_tasks[t].event \in DeleteTags(DiskEventGroup)
              => cfg.sync.download /\ cfg.sync.delete_on_disk

C7_Witness ==
    /\ ~cfg.dry_run
    /\ \E t \in TaskIds :
          /\ async_tasks[t].event = OnlineEventGroup.ALBUM_DELETE
          /\ async_tasks[t].state = "done"
          /\ async_tasks[t].event_data.target \notin DOMAIN service.albums
    /\ \E t \in TaskIds :
          /\ async_tasks[t].event = OnlineEventGroup.ALBUM_ADD
          /\ async_tasks[t].state = "done"

\* no triplet of an earlier run, or one recorded before the album's directory
\* was last modified (by more than DELTA): the case "only the disk side changed"
DiskChangedSinceRecord(a) ==
    \/ disk[a].sync_file = None
    \/ Abs(disk[a].sync_file.disk_time - disk[a].mtime) > DELTA

\* C8: in upload mode, when an album exists on both sides and the disk album
\* holds one image whose relative path is not in the remote album, the walk's
\* turn on that album fires exactly one ALBUM_SYNC for it (with no sync triplet
\* of an earlier run, or with one that the directory has outlived), and once the event's handler has
\* completed (not dry-run) the remote album holds every image of the disk
\* album.
C8_WalkFiresOneSync ==
    (/\ AlbumTurnStep
     /\ cfg.sync.upload
     /\ TurnAlbum \in DOMAIN on_disk.albums
     /\ TurnAlbum \in DOMAIN on_line.albums
     /\ TurnAlbum \in DOMAIN service.albums
     /\ Cardinality(disk[TurnAlbum].images \ service.albums[TurnAlbum].images) = 1
     /\ DiskChangedSinceRecord(TurnAlbum))
    => /\ Len(async_tasks') = Len(async_tasks) + 1
       /\ async_tasks'[Len(async_tasks')].event = OnlineEventGroup.ALBUM_SYNC
       /\ async_tasks'[Len(async_tasks')].event_data.disk_album = TurnAlbum

C8_HandlerUploaded ==
    \A t \in TaskIds :
        (/\ async_tasks[t].event = OnlineEventGroup.ALBUM_SYNC
         /\ async_tasks[t].state = "done"
         /\ cfg.sync.upload
         /\ ~cfg.dry_run)
        => disk[async_tasks[t].event_data.disk_album].images
               \subseteq service.albums[async_tasks[t].event_data.online_album].images

C8_OneSyncAndUpload == [][C8_WalkFiresOneSync]_vars /\ []C8_HandlerUploaded

\* C10: for an album present on both sides the walk writes the sync triplet
\* only when the smart comparison found the albums equal; when it found them
\* unequal the walk fires ALBUM_SYNC and itself writes no triplet.
C10_WalkWritesOnlyWhenEqual ==
    [][(/\ AlbumTurnStep
        /\ TurnAlbum \in DOMAIN disk
        /\ disk'[TurnAlbum].sync_file # disk[TurnAlbum].sync_file)
       => call'.compared /\ call'.content_is_the_same]_vars

\* the earlier run ended with an exception / returned
EarlierRunFailed == [op |-> "failed", target |-> <<>>, by |-> "run_sync"] \in effects
EarlierRunCompleted == [op |-> "completed", target |-> <<>>, by |-> "run_sync"] \in effects

\* a transfer of images of album a was cut short by a transport error
TransferFailed(a) == \E e \in effects : e.op = "transport_error" /\ e.target = a

\* the source side of album a holds an image its target side lacks
SourceAhead(a) ==
    IF cfg.sync.upload
    THEN /\ a \in DOMAIN disk
         /\ a \in DOMAIN service.albums => disk[a].images \ service.albums[a].images # {}
    ELSE /\ a \in DOMAIN service.albums
         /\ a \in DOMAIN disk => service.albums[a].images \ disk[a].images # {}

\* C11: after a run in which the transfer of an album's images failed part of
\* the way (or before the first image), the walk of the next run does not take
\* the album for synced: its turn on the album fires an event for it again.
C11_NextRunResumes ==
    [][(/\ AlbumTurnStep
        /\ run_number = 2
        /\ ~cfg.dry_run
        /\ EarlierRunFailed
        /\ TransferFailed(TurnAlbum)
        /\ SourceAhead(TurnAlbum))
       => /\ Len(async_tasks') = Len(async_tasks) + 1
          /\ async_tasks'[Len(async_tasks')].event
                \in {event_group.ALBUM_SYNC, event_group.ALBUM_ADD}]_vars

\* C12: the same sync run twice back-to-back with nothing changed in between:
\* after the first run has completed (not dry-run), the second run fires no
\* FOLDER_ADD, ALBUM_ADD, *_DELETE or ALBUM_SYNC event, whatever the two trees
\* were at the start.
C12_SecondRunFiresNothing ==
    (run_number = 2 /\ EarlierRunCompleted /\ ~cfg.dry_run) => async_tasks = <<>>

Transfers == {"upload", "download"}

\* C13: for an album whose disk and remote image sets are equal and whose
\* sync file is gone, the walk's turn concludes equality, fires no event,
\* uploads and downloads nothing, and writes a fresh triplet whose online_time
\* is the remote album's last_updated.
C13_EqualAlbumsGetFreshTriplet ==
    [][(/\ AlbumTurnStep
        /\ TurnAlbum \in DOMAIN on_disk.albums
        /\ TurnAlbum \in DOMAIN on_line.albums
        /\ TurnAlbum \in DOMAIN disk
        /\ TurnAlbum \in DOMAIN service.albums
        /\ disk[TurnAlbum].images = service.albums[TurnAlbum].images
        /\ disk[TurnAlbum].sync_file = None)
       => /\ call'.compared /\ call'.content_is_the_same
          /\ async_tasks' = async_tasks
          /\ the_events_tracker' = the_events_tracker
          /\ \A e \in effects' \ effects : e.op \notin Transfers
          /\ service' = service
          /\ disk'[TurnAlbum].images = disk[TurnAlbum].images
          /\ disk'[TurnAlbum].sync_file # None
          /\ disk'[TurnAlbum].sync_file.online_time
                = service.albums[TurnAlbum].last_updated
          /\ disk'[TurnAlbum].sync_file.sync_time = clock]_vars

\* the walk has just compared an album that had no sync file (remote unchanged
\* since LastSync, no refresh forced: only a missing file makes it compare the
\* images) and has written its triplet
C13_Witness ==
    /\ run_number = 1
    /\ ~cfg.force_refresh
    /\ call.kind = "synchronize_albums"
    /\ call.compared /\ call.content_is_the_same /\ ~call.it_was_quick
    /\ call.source_album \in DOMAIN disk
    /\ call.source_album \in DOMAIN service.albums
    /\ service.albums[call.source_album].last_updated = LastSync
    /\ disk[call.source_album].images = service.albums[call.source_album].images
    /\ disk[call.source_album].sync_file = SyncData(clock, LastSync, LastSync + DELTA + 1)
    /\ async_tasks = <<>>

\* task t ends in this step, its handler returned
Completes(t) ==
    /\ t \in TaskIds
    /\ async_tasks[t].state = "running"
    /\ t \in DOMAIN async_tasks'
    /\ async_tasks'[t].state = "done"

AlbumOf(event_data) ==
    IF event_data.kind = "sync" THEN event_data.disk_album ELSE event_data.source_album

AlbumEvents ==
    {OnlineEventGroup.ALBUM_ADD, DiskEventGroup.ALBUM_ADD,
     OnlineEventGroup.ALBUM_SYNC, DiskEventGroup.ALBUM_SYNC}

\* C14: when an ALBUM_ADD or ALBUM_SYNC handler that transferred images
\* returns (not dry-run), the album's stored triplet has online_time equal to
\* the last_updated the service holds for the album after those transfers,
\* which is also the online_info.last_updated of the album in the model.
C14_TripletKeyedToRemote ==
    [][\A t \in TaskIds :
        (/\ Completes(t)
         /\ async_tasks[t].event \in AlbumEvents
         /\ ~cfg.dry_run
         /\ \E e \in effects' \ effects : e.op \in Transfers)
        => LET a == AlbumOf(async_tasks[t].event_data)
           IN /\ a \in DOMAIN disk' /\ a \in DOMAIN service'.albums
              /\ disk'[a].sync_file # None
              /\ disk'[a].sync_file.online_time = service'.albums[a].last_updated
              /\ a \in DOMAIN on_line'.albums
              /\ on_line'.albums[a].online_info.last_updated
                    = service'.albums[a].last_updated]_vars

FolderAddEvents == {OnlineEventGroup.FOLDER_ADD, DiskEventGroup.FOLDER_ADD}

\* C15: the FOLDER_ADD handler (either direction), given source folder S,
\* fires exactly one FOLDER_ADD for every sub-folder of S and exactly one
\* ALBUM_ADD for every album of S, each with the newly created target folder
\* as target_parent, and no other event.
C15_FolderAddRepublishesChildren ==
    [][\A t \in TaskIds :
        (Completes(t) /\ async_tasks[t].event \in FolderAddEvents)
        => LET S == async_tasks[t].event_data.source_folder
               created == joinpath(async_tasks[t].event_data.target_parent, Name(S))
               subs == {q \in DOMAIN source_tree.folders : q # <<>> /\ Parent(q) = S}
               albs == {q \in DOMAIN source_tree.albums : Parent(q) = S}
               fired == (Len(async_tasks) + 1)..Len(async_tasks')
           IN /\ Cardinality(fired) = Cardinality(subs) + Cardinality(albs)
              /\ \A f \in subs : \E i \in fired :
                    /\ async_tasks'[i].event = event_group.FOLDER_ADD
                    /\ async_tasks'[i].event_data = FolderEventData(f, created)
              /\ \A a \in albs : \E i \in fired :
                    /\ async_tasks'[i].event = event_group.ALBUM_ADD
                    /\ async_tasks'[i].event_data = AlbumEventData(a, created)]_vars

\* ------------------------------------------------- claims on the requests
\* every POST of the call was answered by r
AllResponses(r) == \A i \in DOMAIN call.responses : call.responses[i] = r

\* C16: a request that keeps failing with a transient transport error is
\* retried 3 times (4 attempts) with waits of 1 s, 2 s and 3 s before the
\* error is raised.
C16_ThreeRetriesLinearDelay ==
    (/\ call.kind = "request_upload"
     /\ call.pc = "raised"
     /\ AllResponses("connection_lost"))
    => /\ Len(call.responses) = 4
       /\ call.slept = <<1, 2, 3>>

\* C17: a remote application error on upload (a 4xx status, or a 200 whose
\* body has stat "fail") is not retried: the upload is attempted once and the
\* error raised.
C17_ApplicationErrorNotRetried ==
    (/\ call.kind = "request_upload"
     /\ call.responses # <<>>
     /\ call.responses[1] \in {"status_4xx", "stat_fail"})
    => /\ Len(call.responses) = 1
       /\ call.slept = <<>>
       /\ call.pc \in {"except", "raised"}

\* ------------------------------------------------ claims on image_tools
\* C18: images_are_the_same(i1, i2) is true if and only if i1 and i2 have
\* the same album_relative_path/filename: images that differ in album path or
\* in file name are not the same, and disk_info and online_info play no part.
C18_SameIffSameRelativePath ==
    (call.kind = "images_are_the_same" /\ call.returned)
    => (call.ret <=> /\ call.image1.album_relative_path = call.image2.album_relative_path
                     /\ call.image1.filename = call.image2.filename)

C18_Witness ==
    /\ call.kind = "images_are_the_same"
    /\ call.returned
    /\ call.ret
    /\ call.image1.disk_info # call.image2.disk_info
    /\ call.image1.online_info # call.image2.online_info

\* the suffixes the specification lists
ListedSuffixes ==
    {<<".", "j", "p", "g">>, <<".", "j", "p", "e", "g">>,
     <<".", "h", "e", "i", "c">>, <<".", "m", "p", "4">>,
     <<".", "a", "v", "i">>, <<".", "m", "4", "v">>,
     <<".", "m", "o", "v">>, <<".", "m", "t", "s">>}

\* C19: is_image(filename) is true exactly when the lowercased suffix of the
\* file name is one of .jpg, .jpeg, .heic, .mp4, .avi, .m4v, .mov, .mts; any
\* other suffix, and a name with no suffix, gives false.
C19_IsImageIffListedSuffix ==
    (call.kind = "is_image" /\ call.returned)
    => (call.ret <=> lower(PurePath_suffix(call.filename)) \in ListedSuffixes)

\* the node an event is about
SubjectOf(event_data) ==
    CASE event_data.kind = "folder" -> event_data.source_folder
      [] event_data.kind = "album" -> event_data.source_album
      [] event_data.kind = "sync" -> event_data.disk_album
      [] OTHER -> event_data.target

\* a step of the walk (no handler runs meanwhile) that fires events
WalkFires == MainWalking /\ Len(async_tasks') > Len(async_tasks)

\* C20: when the walk reaches a source folder S whose target counterpart is
\* missing, it fires exactly one FOLDER_ADD carrying S and the target parent
\* and leaves S; and the walk never fires an event for a node below a folder
\* a FOLDER_ADD has been fired for.
C20_AddStopsDescent ==
    /\ [][(MainWalking /\ Top.pc = "enter" /\ ~Top.has_target)
          => /\ Len(async_tasks') = Len(async_tasks) + 1
             /\ async_tasks'[Len(async_tasks')].event = event_group.FOLDER_ADD
             /\ async_tasks'[Len(async_tasks')].event_data
                   = FolderEventData(Top.folder, Top.target_parent)
             /\ main'.frames = SubSeq(main.frames, 1, Len(main.frames) - 1)]_vars
    /\ [][WalkFires
          => \A i \in (Len(async_tasks) + 1)..Len(async_tasks') :
                \A j \in DOMAIN async_tasks' :
                    async_tasks'[j].event \in FolderAddEvents
                    => LET S == async_tasks'[j].event_data.source_folder
                           P == SubjectOf(async_tasks'[i].event_data)
                       IN ~(P # S /\ IsUnder(P, S))]_vars

\* the walk has ended after a FOLDER_ADD for F, missing on the target side,
\* while the source side has the folder F/G and an album in each
C20_Witness ==
    /\ run_number = 1
    /\ Top.pc = "final_join"
    /\ \E j \in TaskIds :
          /\ async_tasks[j].event \in FolderAddEvents
          /\ async_tasks[j].event_data = FolderEventData(<<"F">>, <<>>)
    /\ Len(async_tasks) = 1
    /\ {<<"F", "B">>, <<"F", "G", "C">>} \subseteq DOMAIN source_tree.albums

\* ------------------------------------------------------ claims on the walk
StrictlyUnder(q, p) == q # p /\ IsUnder(q, p)

\* task i was fired by the walk: the handlers of FOLDER_ADD fire the events of
\* what is below their folder, the walk fires none there
WalkFired(i) ==
    ~\E j \in TaskIds :
        /\ async_tasks[j].event \in FolderAddEvents
        /\ StrictlyUnder(SubjectOf(async_tasks[i].event_data),
                         async_tasks[j].event_data.source_folder)

NamePos(n) == CHOOSE k \in DOMAIN NameOrder : NameOrder[k] = n

\* the place of task i among the events of folder X: 0 for an event of one of
\* X's albums, 1 for an event of (or below) a sub-folder of X, 2 for a delete
\* of a child of X; with the name of that album or sub-folder
PhaseIn(X, i) ==
    LET P == SubjectOf(async_tasks[i].event_data)
    IN IF Parent(P) = X /\ async_tasks[i].event \in AlbumEvents THEN 0
       ELSE IF Parent(P) = X /\ async_tasks[i].event_data.kind = "delete" THEN 2
       ELSE 1

InWalkOrder(X, i, j) ==
    LET child_i == SubjectOf(async_tasks[i].event_data)[Len(X) + 1]
        child_j == SubjectOf(async_tasks[j].event_data)[Len(X) + 1]
    IN \/ PhaseIn(X, i) < PhaseIn(X, j)
       \/ PhaseIn(X, i) = 0 /\ PhaseIn(X, j) = 0 /\ NamePos(child_i) < NamePos(child_j)
       \/ PhaseIn(X, i) = 1 /\ PhaseIn(X, j) = 1 /\ NamePos(child_i) <= NamePos(child_j)
       \/ PhaseIn(X, i) = 2 /\ PhaseIn(X, j) = 2

\* C21: of two events fired by the walk below a folder X, the earlier one is
\* an event of an album of X with the smaller name, or an album event before a
\* sub-folder's or a delete, or an event of the sub-folder with the smaller
\* name (or of the same), or a sub-folder's event before a delete of X; and
\* an album of the source with image_count = 0 has no event from the walk.
C21_WalkOrder ==
    /\ \A i \in TaskIds :
          (WalkFired(i) /\ async_tasks[i].event \in AlbumEvents)
          => source_tree.albums[SubjectOf(async_tasks[i].event_data)].image_count > 0
    /\ \A i, j \in TaskIds :
        (i < j /\ WalkFired(i) /\ WalkFired(j))
        => LET Pi == SubjectOf(async_tasks[i].event_data)
               Pj == SubjectOf(async_tasks[j].event_data)
           IN \A k \in 0..(Len(Pi) - 1) :
                 (k < Len(Pj) /\ SubSeq(Pi, 1, k) = SubSeq(Pj, 1, k))
                 => InWalkOrder(SubSeq(Pi, 1, k), i, j)

\* the walk has ended and has fired, below the root: the events of the albums
\* A and B, then one for the sub-folder F, then the delete of G
C21_Witness ==
    /\ Top.pc = "final_join"
    /\ Len(async_tasks) = 4
    /\ \A i \in 1..4 : WalkFired(i)
    /\ <<SubjectOf(async_tasks[1].event_data), SubjectOf(async_tasks[2].event_data),
         SubjectOf(async_tasks[3].event_data), SubjectOf(async_tasks[4].event_data)>>
          = <<<<"A">>, <<"B">>, <<"F">>, <<"G">>>>
    /\ <<PhaseIn(<<>>, 1), PhaseIn(<<>>, 2), PhaseIn(<<>>, 3), PhaseIn(<<>>, 4)>>
          = <<0, 0, 1, 2>>

\* the pair the smart comparison is to return for album a, from what the two
\* scanned albums say and the images the disk and the service hold
SmartComparison(a) ==
    LET da == on_disk.albums[a]
        oa == on_line.albums[a]
        disk_images == sorted_images(disk[a].images)
        online_images == sorted_images(service.albums[a].images)
    IN IF albums_already_synced(disk, da, oa, cfg.force_refresh) THEN <<TRUE, TRUE>>
       ELSE IF da.relative_path # oa.relative_path \/ da.image_count # oa.image_count
       THEN <<FALSE, TRUE>>
       ELSE IF \E i \in 1..Len(disk_images) : disk_images[i] # online_images[i]
       THEN <<FALSE, FALSE>>
       ELSE <<TRUE, FALSE>>

\* C22: the comparison the walk makes of an album present on both sides
\* returns (true, true) when albums_already_synced holds; otherwise
\* (false, true) when relative_path or image_count differ; otherwise
\* (false, false) when some pair of the two sorted image lists differs and
\* (true, false) when all pairs match.
C22_SmartComparison ==
    [][(/\ AlbumTurnStep
        /\ TurnAlbum \in DOMAIN on_disk.albums
        /\ TurnAlbum \in DOMAIN on_line.albums
        /\ source_tree.albums[TurnAlbum].image_count > 0)
       => /\ call'.kind = "synchronize_albums"
          /\ call'.source_album = TurnAlbum
          /\ call'.compared
          /\ <<call'.content_is_the_same, call'.it_was_quick>> = SmartComparison(TurnAlbum)]_vars

\* the walk has compared two albums of as many images, not the same ones
C22_Witness ==
    /\ call.kind = "synchronize_albums"
    /\ call.compared /\ ~call.content_is_the_same /\ ~call.it_was_quick
    /\ on_disk.albums[call.source_album].image_count = 1
    /\ on_line.albums[call.source_album].image_count = 1
    /\ Top.pc = "albums"

AlbumSyncEvents == {OnlineEventGroup.ALBUM_SYNC, DiskEventGroup.ALBUM_SYNC}

\* the images album a holds on disk or on the service change in this step
ImagesChange(a) ==
    \/ disk'[a].images # disk[a].images
    \/ service'.albums[a].images # service.albums[a].images

\* C23: when an ALBUM_SYNC handler returns having changed the images of its
\* album (uploaded, downloaded, deleted on disk or deleted online), both image
\* lists of the album are the reloaded ones and the sync file holds a triplet
\* written by this handler.
C23_SyncReloadsAndRemembers ==
    [][\A t \in TaskIds :
          (/\ Completes(t)
           /\ async_tasks[t].event \in AlbumSyncEvents
           /\ ImagesChange(async_tasks[t].event_data.disk_album))
          => LET a == async_tasks[t].event_data.disk_album
             IN /\ on_disk'.albums[a].images = ImageList(disk'[a].images)
                /\ on_line'.albums[a].images = ImageList(service'.albums[a].images)
                /\ disk'[a].sync_file # None
                /\ disk'[a].sync_file.sync_time = clock
                /\ [op |-> "write_sync", target |-> a, by |-> "handler"] \in effects']_vars

\* the tasks fired in this step
FiredNow == (Len(async_tasks) + 1)..Len(async_tasks')

\* the walk is at the delete phase of the folder pair of Top.folder
AtDeletePhase == MainWalking /\ Top.pc = "sub_folders" /\ Top.todo = <<>>

DeletePermitted ==
    \/ cfg.sync.upload /\ cfg.sync.delete_online
    \/ ~cfg.sync.upload /\ cfg.sync.download /\ cfg.sync.delete_on_disk

\* the tasks fired in this step with this event for this target
FiredFor(event, target) ==
    {i \in FiredNow : /\ async_tasks'[i].event = event
                      /\ async_tasks'[i].event_data.kind = "delete"
                      /\ async_tasks'[i].event_data.target = target}

\* C24: with deletion permitted, the delete phase of a folder pair (S, T)
\* fires exactly one FOLDER_DELETE for each sub-folder of T whose name S's
\* sub-folders lack, exactly one ALBUM_DELETE for each album of T whose name
\* S's albums lack, and nothing else; no other step fires a delete; and when a
\* delete handler has returned its target is no longer in T's tree.
C24_DeletesWhatSourceLacks ==
    /\ [][(AtDeletePhase /\ DeletePermitted /\ main' # main)
          => LET X == Top.folder
                 gone_folders == sub_folders(target_tree, X) \ sub_folders(source_tree, X)
                 gone_albums == albums(target_tree, X) \ albums(source_tree, X)
             IN /\ \A n \in gone_folders :
                      Cardinality(FiredFor(event_group.FOLDER_DELETE, joinpath(X, n))) = 1
                /\ \A n \in gone_albums :
                      Cardinality(FiredFor(event_group.ALBUM_DELETE, joinpath(X, n))) = 1
                /\ Cardinality(FiredNow)
                      = Cardinality(gone_folders) + Cardinality(gone_albums)]_vars
    /\ [][(\E i \in FiredNow : async_tasks'[i].event_data.kind = "delete")
          => AtDeletePhase /\ DeletePermitted]_vars
    /\ [][\A t \in TaskIds :
             (Completes(t) /\ async_tasks[t].event_data.kind = "delete")
             => /\ async_tasks[t].event_data.target \notin DOMAIN target_tree'.folders
                /\ async_tasks[t].event_data.target \notin DOMAIN target_tree'.albums]_vars

\* the album A and the folder G, which only the target side had, have been
\* deleted there, the album B and the folder F, which both sides have, not
C24_Witness ==
    /\ \E t \in TaskIds :
          /\ async_tasks[t].event = event_group.ALBUM_DELETE
          /\ async_tasks[t].event_data.target = <<"A">>
          /\ async_tasks[t].state = "done"
    /\ \E t \in TaskIds :
          /\ async_tasks[t].event = event_group.FOLDER_DELETE
          /\ async_tasks[t].event_data.target = <<"G">>
          /\ async_tasks[t].state = "done"
    /\ DOMAIN target_tree.albums = {<<"B">>, <<"F", "C">>}
    /\ DOMAIN target_tree.folders = {<<>>, <<"F">>}
    /\ DOMAIN source_tree.albums = {<<"B">>, <<"F", "C">>}
    /\ Len(async_tasks) = 2

\* C25: at any time at most one ALBUM_ADD or ALBUM_SYNC handler is running
\* for a given album (the album whose sync file the handler writes).
C25_OneHandlerPerAlbum ==
    \A t, u \in TaskIds :
        (/\ t # u
         /\ async_tasks[t].event \in AlbumEvents
         /\ async_tasks[u].event \in AlbumEvents
         /\ async_tasks[t].state = "running"
         /\ async_tasks[u].state = "running")
        => AlbumOf(async_tasks[t].event_data) # AlbumOf(async_tasks[u].event_data)

\* ----------------------------------------------------- claims on the trees
\* no folder and no album of the tree share a name within the same parent
\* (two folders, or two albums, of one parent cannot: they are keys of a dict)
NoSharedNames(tree) ==
    \A f \in DOMAIN tree.folders, a \in DOMAIN tree.albums :
        ~(f # <<>> /\ Parent(f) = Parent(a) /\ Name(f) = Name(a))

\* C26: in the first run, whose scanned trees have no folder and album of the
\* same name in one parent, neither tree ever has.
C26_NamesStayUnique ==
    run_number = 1 => NoSharedNames(on_disk) /\ NoSharedNames(on_line)

\* every folder of the tree, the root apart, is in the sub_folders of a folder
\* of the tree under its own name, and its relative_path is that folder's
\* joined with this name; the root's relative_path is empty
PathsJoin(tree) ==
    \A p \in DOMAIN tree.folders :
        IF p = <<>> THEN tree.folders[p].relative_path = <<>>
        ELSE /\ Parent(p) \in DOMAIN tree.folders
             /\ Name(p) = Name(tree.folders[p].relative_path)
             /\ tree.folders[p].relative_path
                   = Append(tree.folders[Parent(p)].relative_path, Name(p))

\* C27: in every state both trees have f.relative_path = join(parent's
\* relative_path, f.name) for every folder f, the root's being empty; and when
\* the walk enters a folder pair the two relative_paths are equal.
C27_RelativePathsJoin ==
    /\ PathsJoin(on_disk)
    /\ PathsJoin(on_line)
    /\ (MainWalking /\ Top.pc = "enter" /\ Top.has_target)
       => /\ Top.folder \in DOMAIN source_tree.folders
          /\ Top.folder \in DOMAIN target_tree.folders
          /\ source_tree.folders[Top.folder].relative_path
                = target_tree.folders[Top.folder].relative_path

\* the FOLDER_ADD handlers have created F and, under it, G on the target side
C27_Witness ==
    /\ run_number = 1
    /\ \E t \in TaskIds :
          /\ async_tasks[t].event \in FolderAddEvents
          /\ async_tasks[t].event_data = FolderEventData(<<"F", "G">>, <<"F">>)
          /\ async_tasks[t].state = "done"
    /\ <<"F", "G">> \in DOMAIN target_tree.folders
    /\ target_tree.folders[<<"F", "G">>].relative_path = <<"F", "G">>

\* the albums of the tree whose image list is materialized have as many
\* images in it as image_count says
CountsMatch(tree) ==
    \A a \in DOMAIN tree.albums :
        tree.albums[a].images # None
        => Cardinality(tree.albums[a].images.list) = tree.albums[a].image_count

\* an album without a list requires the load
UnloadedRequireLoad(tree) ==
    \A a \in DOMAIN tree.albums :
        tree.albums[a].images = None => requires_image_load(tree.albums[a])

\* C28: every album, on disk or remote, whose image list is materialized has
\* len(images) = image_count; an album whose images are not loaded (never, or
\* reset) reports requires_image_load; and an album whose list has just been
\* loaded does not.
C28_ImageCountMatchesList ==
    /\ [](CountsMatch(on_disk) /\ CountsMatch(on_line))
    /\ [](UnloadedRequireLoad(on_disk) /\ UnloadedRequireLoad(on_line))
    /\ [][\A a \in DOMAIN on_line'.albums :
             (/\ a \in DOMAIN on_line.albums
              /\ on_line'.albums[a].images # on_line.albums[a].images
              /\ on_line'.albums[a].images # None)
             => ~requires_image_load(on_line'.albums[a])]_vars
    /\ [][\A a \in DOMAIN on_disk'.albums :
             (/\ a \in DOMAIN on_disk.albums
              /\ on_disk'.albums[a].images # on_disk.albums[a].images
              /\ on_disk'.albums[a].images # None)
             => ~requires_image_load(on_disk'.albums[a])]_vars

\* ------------------------------------------------- claims on subscription
\* the functions made by subscribing event_handler to event, in the order of
\* the applications of the decorator
RegisteredFor(event) ==
    SelectSeq(call.applied, LAMBDA a : event \in Range(a.event_tags))

\* the calls handle_event made of event_handler
CallsOf(event_handler) ==
    {i \in DOMAIN call.calls : /\ call.calls[i].op = "call"
                               /\ call.calls[i].handler.event_handler = event_handler}

\* C29: however many times a handler function was subscribed to an event
\* kind, the registry holds it once for that kind and an event of that kind
\* calls it exactly once.
C29_SubscribeIsIdempotent ==
    (call.kind = "subscribe" /\ call.pc = "processed")
    => \A event_handler \in {"f", "g"} :
          (\E i \in DOMAIN RegisteredFor(call.event) :
              RegisteredFor(call.event)[i].wrapped.event_handler = event_handler)
          => /\ Cardinality({h \in call.event_handlers[call.event] :
                                h.event_handler = event_handler}) = 1
             /\ Cardinality(CallsOf(event_handler)) = 1

\* C30: the handlers of a fired event are called one at a time, each call
\* returning before the next, in the order in which they were registered.
C30_HandlersInRegistrationOrder ==
    (call.kind = "subscribe" /\ call.pc = "processed")
    => /\ Len(call.calls) = 2 * Len(RegisteredFor(call.event))
       /\ \A i \in DOMAIN RegisteredFor(call.event) :
             /\ call.calls[2 * i - 1]
                   = [op |-> "call", handler |-> RegisteredFor(call.event)[i].wrapped]
             /\ call.calls[2 * i]
                   = [op |-> "return", handler |-> RegisteredFor(call.event)[i].wrapped]

\* ------------------------------------------- disk.py, the sync-state file
\* What smugmug_sync.json can hold: nothing readable as JSON, a JSON value
\* that is no object, or an object with some of the three fields of SyncData
\* and maybe a foreign one.  A file system without the file has None.
SyncDataFields == {"sync_time", "online_time", "disk_time"}
SyncFileTimes == 1..MaxRuns
SyncFiles ==
    {None, [kind |-> "text"], [kind |-> "array"]} \cup
    {[kind |-> "object", d |-> d] :
        d \in UNION {[keys -> SyncFileTimes] :
                        keys \in SUBSET (SyncDataFields \cup {"other"})}}

\* DiskAlbumInfo.__post_init__ with the file content it finds, the new file
\* content and the object's sync_data: json.load raises on text that is no
\* JSON, SyncData(**d) raises on a value that is no mapping and on a mapping
\* whose keys are not exactly the three fields; the except branch calls
\* remember_sync(None), which unlinks the file
DiskAlbumInfo_post_init_keeps(file) ==
    IF file = None THEN [sync_data |-> None, file |-> file]
    ELSE IF file.kind = "object"
    THEN [sync_data |-> file.d, file |-> file]
    ELSE [sync_data |-> None, file |-> None]
DiskAlbumInfo_post_init(file) ==
    IF file = None THEN [sync_data |-> None, file |-> file]
    ELSE IF file.kind = "object" /\ DOMAIN file.d = SyncDataFields
    THEN [sync_data |-> file.d, file |-> file]
    ELSE [sync_data |-> None, file |-> None]

\* DiskAlbumInfo.online_time and DiskAlbumInfo.disk_time are None
DiskAlbumInfo_never_synced(info) == info.sync_data = None

\* SpecSyncFile: one album directory over the runs of the program.  Each run
\* constructs the album's DiskAlbumInfo from the file, may remember a sync,
\* and ends; a run killed while json.dump writes leaves a truncated file.
InitSyncFile ==
    /\ InitDispatcher
    /\ NoWorld
    /\ \E file \in SyncFiles :
          call = [kind |-> "sync_file", file |-> file, found |-> None,
                  info |-> None, mtime |-> 1]

SyncFileUnchanged ==
    UNCHANGED <<the_events_tracker, async_tasks, concurrency_limiter, main, worldVars>>

\* scanning the album: DiskAlbumInfo(disk_path)
DiskAlbumInfoConstructed ==
    /\ call.kind = "sync_file"
    /\ call.info = None
    /\ call' = [call EXCEPT
                  !.found = call.file,
                  !.info = [sync_data |-> DiskAlbumInfo_post_init(call.file).sync_data],
                  !.file = DiskAlbumInfo_post_init(call.file).file]
    /\ SyncFileUnchanged

\* remember_sync(online_time) of a handler or of the walk
SyncRemembered ==
    /\ call.kind = "sync_file"
    /\ call.info # None
    /\ \E sync_time \in SyncFileTimes, online_time \in SyncFileTimes :
          LET sync_data == SyncData(sync_time, online_time, call.mtime)
          IN call' = [call EXCEPT !.info = [sync_data |-> sync_data],
                                  !.file = [kind |-> "object", d |-> sync_data]]
    /\ SyncFileUnchanged

\* the process dies inside json.dump: the file is open for writing and holds
\* a prefix of the text
SyncWriteInterrupted ==
    /\ call.kind = "sync_file"
    /\ call.info # None
    /\ call' = [call EXCEPT !.info = None, !.found = None,
                            !.file = [kind |-> "text"]]
    /\ SyncFileUnchanged

\* the run ends; the next one scans again
SyncRunEnds ==
    /\ call.kind = "sync_file"
    /\ call.info # None
    /\ call' = [call EXCEPT !.info = None, !.found = None]
    /\ SyncFileUnchanged

NextSyncFile ==
    \/ DiskAlbumInfoConstructed
    \/ SyncRemembered
    \/ SyncWriteInterrupted
    \/ SyncRunEnds

SpecSyncFile == InitSyncFile /\ [][NextSyncFile]_vars

\* ------------------------------------------------------------------- C31
WellFormedSyncFile(file) ==
    /\ file # None
    /\ file.kind = "object"
    /\ DOMAIN file.d = SyncDataFields

\* C31: an album whose sync file was absent, unreadable as JSON or without
\* exactly the three fields is loaded as never synced, with online_time and
\* disk_time both nil, and a malformed file is gone after
\* the load; the loaded triplet has all three fields or none.
C31_MalformedSyncFileResets ==
    (call.kind = "sync_file" /\ call.info # None) =>
        /\ call.info.sync_data = None \/ DOMAIN call.info.sync_data = SyncDataFields
        /\ ~WellFormedSyncFile(call.found) =>
              \/ /\ DiskAlbumInfo_never_synced(call.info)
                 /\ call.file = None
              \* a sync remembered since the load
              \/ WellFormedSyncFile(call.file) /\ call.info.sync_data = call.file.d

C31_Witness ==
    /\ call.kind = "sync_file"
    /\ call.info # None
    /\ call.found # None
    /\ call.found.kind = "object"
    /\ DOMAIN call.found.d = {"sync_time", "online_time"}
    /\ call.info.sync_data = None
    /\ call.file = None

\* ------------------------------- online/smugmug.py, request_download
\* A file path of the album directory: PurePath.stem and PurePath.suffix
FilePath(stem, suffix) == [stem |-> stem, suffix |-> suffix]

\* Path.with_suffix(".tmp")
with_suffix_kept(local_path) == local_path
with_suffix_tmp(local_path) == FilePath(local_path.stem, ".tmp")

\* The content of a file: which image it is of and how many of its chunks it
\* holds; the image the service streams has MaxChunks chunks.
FileContent(of, chunks) == [of |-> of, chunks |-> chunks]
NewImage == FileContent("new", MaxChunks)
PreviousImage == FileContent("previous", MaxChunks)
IsPartial(content) == content # None /\ content.chunks < MaxChunks

\* SpecDownload: request_download of one image, attempt after attempt.  The
\* target path holds nothing or an earlier complete copy, the .tmp path
\* nothing or what an earlier attempt of any program left there.
DownloadTarget == FilePath("1", ".jpg")
InitDownload ==
    /\ InitDispatcher
    /\ NoWorld
    /\ \E previous \in {None, PreviousImage},
          left \in {None} \cup {FileContent("new", n) : n \in 0..MaxChunks} :
          call = [kind |-> "request_download", pc |-> "start",
                  local_path |-> DownloadTarget, attempt |-> 1,
                  files |-> [p \in {DownloadTarget, with_suffix_tmp(DownloadTarget)} |->
                                IF p = DownloadTarget THEN previous ELSE left]]

DownloadUnchanged ==
    UNCHANGED <<the_events_tracker, async_tasks, concurrency_limiter, main, worldVars>>

\* open(temp_file_name, "wb"): the file is created or truncated
DownloadOpens ==
    /\ call.kind = "request_download"
    /\ call.pc = "start"
    /\ call' = [call EXCEPT
                  !.pc = "streaming",
                  !.files[with_suffix_tmp(call.local_path)] = FileContent("new", 0)]
    /\ DownloadUnchanged

\* f.write(chunk)
DownloadWritesChunk ==
    /\ call.kind = "request_download"
    /\ call.pc = "streaming"
    /\ call.files[with_suffix_tmp(call.local_path)].chunks < MaxChunks
    /\ call' = [call EXCEPT !.files[with_suffix_tmp(call.local_path)].chunks = @ + 1]
    /\ DownloadUnchanged

\* the stream is exhausted and the with block closes the file
DownloadCloses ==
    /\ call.kind = "request_download"
    /\ call.pc = "streaming"
    /\ call.files[with_suffix_tmp(call.local_path)].chunks = MaxChunks
    /\ call' = [call EXCEPT !.pc = "written"]
    /\ DownloadUnchanged

\* request_stream raises: the with block closes the file and the error leaves
\* request_download
DownloadStreamRaises ==
    /\ call.kind = "request_download"
    /\ call.pc = "streaming"
    /\ call' = [call EXCEPT !.pc = "raised"]
    /\ DownloadUnchanged

\* local_path.unlink(missing_ok=True)
DownloadUnlinks ==
    /\ call.kind = "request_download"
    /\ call.pc = "written"
    /\ call' = [call EXCEPT !.pc = "unlinked", !.files[call.local_path] = None]
    /\ DownloadUnchanged

\* temp_file_name.rename(local_path): FileNotFoundError when the source is
\* not there
DownloadRenames ==
    /\ call.kind = "request_download"
    /\ call.pc = "unlinked"
    /\ LET temp_file_name == with_suffix_tmp(call.local_path)
       IN IF call.files[temp_file_name] = None
          THEN call' = [call EXCEPT !.pc = "raised"]
          ELSE call' = [call EXCEPT
                          !.pc = "returned",
                          !.files = [p \in DOMAIN @ |->
                                       IF p = call.local_path THEN @[temp_file_name]
                                       ELSE IF p = temp_file_name THEN None
                                       ELSE @[p]]]
    /\ DownloadUnchanged

\* the process is killed at any step
DownloadCrashes ==
    /\ call.kind = "request_download"
    /\ call.pc \in {"start", "streaming", "written", "unlinked"}
    /\ call' = [call EXCEPT !.pc = "crashed"]
    /\ DownloadUnchanged

\* the next run finds the image missing or unchanged online and downloads again
DownloadAgain ==
    /\ call.kind = "request_download"
    /\ call.pc \in {"crashed", "raised", "returned"}
    /\ call.attempt < MaxRuns + 1
    /\ call' = [call EXCEPT !.pc = "start", !.attempt = @ + 1]
    /\ DownloadUnchanged

NextDownload ==
    \/ DownloadOpens
    \/ DownloadWritesChunk
    \/ DownloadCloses
    \/ DownloadStreamRaises
    \/ DownloadUnlinks
    \/ DownloadRenames
    \/ DownloadCrashes
    \/ DownloadAgain

SpecDownload == InitDownload /\ [][NextDownload]_vars

\* ------------------------------------------------------------------- C32
\* C32: at every step of request_download and after a crash or an error at
\* any step, the target path holds the previous complete file, no file or
\* the complete new file, never a part of the download, which is only at the
\* .tmp path; an attempt that returned left the complete new file at the
\* target, whatever the .tmp path held before it.
C32_TargetNeverPartial ==
    call.kind = "request_download" =>
        /\ call.files[call.local_path] \in {None, PreviousImage, NewImage}
        /\ \A p \in DOMAIN call.files :
              IsPartial(call.files[p]) => p = FilePath(call.local_path.stem, ".tmp")
        /\ call.pc = "returned" =>
              /\ call.files[call.local_path] = NewImage
              /\ call.files[FilePath(call.local_path.stem, ".tmp")] = None

\* a later attempt returned
C32_Witness ==
    /\ call.kind = "request_download"
    /\ call.pc = "returned"
    /\ call.attempt > 1
    /\ call.files[call.local_path] = NewImage

\* --------------------------------------- online/smugmug.py, paginate
\* A listing of the service is the items 1..listed; Pages.Total of the first
\* response is that number, or one more when an item went away after the
\* service counted.  A response holds the items from start on, as many as
\* the service chooses to put on the page and at most count; a page with no
\* item comes as an empty list or without the key.
Page(start, n) == [i \in 1..n |-> start + i - 1]
PageResponse(has_items, items) == [has_items |-> has_items, items |-> items]
PageResponses(listed, start, count) ==
    IF start > listed THEN {PageResponse(TRUE, <<>>), PageResponse(FALSE, <<>>)}
    ELSE {PageResponse(TRUE, Page(start, n)) : n \in 1..Min(count, listed - start + 1)}

\* one more request than the longest listing needs
MaxRequests == MaxItems + 2

InitPaginate ==
    /\ InitDispatcher
    /\ NoWorld
    /\ \E listed \in 0..MaxItems, stale \in 0..1 :
          call = [kind |-> "paginate", pc |-> "first", listed |-> listed,
                  Total |-> listed + stale, total_count |-> 0, items_found |-> 0,
                  yielded |-> <<>>, requests |-> 0, params |-> None]

PaginateUnchanged ==
    UNCHANGED <<the_events_tracker, async_tasks, concurrency_limiter, main, worldVars>>

\* the initial request and the loop over its items; Total of 0 or no Pages
\* gives len(items)
PaginateFirstPage ==
    /\ call.kind = "paginate"
    /\ call.pc = "first"
    /\ \E response \in PageResponses(call.listed, 1, call.listed) :
          LET items == response.items
              total_count == IF call.Total = 0 THEN Len(items) ELSE call.Total
          IN call' = [call EXCEPT
                        !.requests = 1,
                        !.yielded = items,
                        !.total_count = total_count,
                        !.items_found = Len(items),
                        !.pc = IF total_count > Len(items) THEN "paging" ELSE "returned"]
    /\ PaginateUnchanged

\* one turn of the while loop: the request with start and count, then the
\* loop over response.get(object_name), which raises TypeError on None
PaginateNextPage ==
    /\ call.kind = "paginate"
    /\ call.pc = "paging"
    /\ call.requests < MaxRequests
    /\ LET start == call.items_found + 1
       IN \E response \in PageResponses(call.listed, start, page_size) :
             IF ~response.has_items
             THEN call' = [call EXCEPT
                             !.requests = @ + 1,
                             !.params = [start |-> start, count |-> page_size],
                             !.pc = "raised"]
             ELSE call' = [call EXCEPT
                             !.requests = @ + 1,
                             !.params = [start |-> start, count |-> page_size],
                             !.yielded = @ \o response.items,
                             !.items_found = @ + Len(response.items),
                             !.pc = IF call.total_count > call.items_found + Len(response.items)
                                    THEN "paging" ELSE "returned"]
    /\ PaginateUnchanged

NextPaginate == PaginateFirstPage \/ PaginateNextPage

SpecPaginate == InitPaginate /\ [][NextPaginate]_vars

\* ------------------------------------------------------------------- C33
\* C33: paginate ends for every sequence of page responses the service can
\* give, an empty page included: every follow-up request either brings items
\* that were not yet counted or is the last one (paginate returns, or
\* raises), so the loop cannot go round on the same request.
C33_PaginateTerminates ==
    [][(call.kind = "paginate" /\ call.pc = "paging" /\ call'.requests > call.requests)
          => \/ call'.items_found > call.items_found
             \/ call'.pc \in {"returned", "raised"}]_vars

\* ------------------------------------------------------------------- C34
\* the images of the remote album at uri whose record has Processing set
ProcessingOf(uri) ==
    IF uri \in DOMAIN service.albums THEN service.albums[uri].processing ELSE {}

C38_EqualOnlySameImages ==
    [][(/\ AlbumTurnStep
        /\ call'.kind = "synchronize_albums"
        /\ call'.compared
        /\ call'.content_is_the_same
        /\ ~call'.it_was_quick)
       => relative_paths(on_disk'.albums[TurnAlbum])
             = relative_paths(on_line'.albums[TurnAlbum])]_vars

\* ------------------------------------------------------------------- C37
\* C37: an image that leaves an album directory on disk, the directory
\* staying, is not in the remote album of the same path, whether its remote
\* copy is ready or still in processing.
C37_DeletesOnlyWhatIsGoneOnline ==
    [][\A a \in DOMAIN disk \cap DOMAIN disk' :
          \A f \in disk[a].images \ disk'[a].images :
              a \in DOMAIN service.albums => f \notin service.albums[a].images]_vars

\* ------------------------------------------------------------------- C35
\* C35: in a dry run, where no request fails, no handler of a fired event
\* raises and join() does not raise, the ALBUM_ADD handlers of an album whose
\* target was only made up in the dry run included.
C35_DryRunHandlersReturn ==
    cfg.dry_run =>
        /\ \A t \in DOMAIN async_tasks : async_tasks[t].state # "failed"
        /\ main.pc # "raised"

\* ------------------------------------------------------------------- C36
\* The dispatcher under load with the event loop's scheduling: a coroutine
\* that can take a step takes it, and a running handler ends, by returning or
\* by raising.
HandlerEnds == \E t \in TaskIds : EMHandlerReturns(t) \/ EMHandlerRaises(t)

SpecLoadFair ==
    /\ SpecLoad
    /\ WF_vars(LoadPublish)
    /\ WF_vars(\E t \in TaskIds : handle_event_start(t))
    /\ WF_vars(HandlerEnds)
    /\ WF_vars(join_gather_returns)
    /\ WF_vars(join_gather_raises)

\* C36: when every handler ends, by returning or by raising, every fired
\* event gets a permit and runs in the end, also with more events pending
\* than there are permits: no event waits for ever (an event that has left
\* the wait never waits again, so in the end none is waiting).
C36_EveryEventRuns ==
    <>(\A t \in 1..MaxLoad : t \in TaskIds /\ async_tasks[t].state # "pending")

====
